---- MODULE Spec2Model ----
(***************************************************************************)
(* Model of vite-plugin-i18next-checker: the tree flattener and pruner     *)
(* (object-utils), the key comparator, the key cleaner and the checker     *)
(* orchestrator.                                                           *)
(*                                                                         *)
(* JSON values are records [kind, val]; an object's val is its sequence of *)
(* entries [name, value] in property-iteration order, a list's val is the  *)
(* sequence of its items.  Dotted keys are strings, built with \o as the   *)
(* template literal `${prefix}.${key}` builds them.                        *)
(***************************************************************************)
EXTENDS Integers, Sequences, FiniteSets, TLC

(***************************************************************************)
(* Bounds of the model.                                                    *)
(***************************************************************************)
\* Largest number of nodes (entries at any depth) of a tree drawn by PureInit.
MaxNodes == 3
\* Largest number of check / clean runs in one behaviour of Spec.
MaxRuns == 2
\* Largest number of failing writes in one behaviour of Spec.
MaxWriteFailures == 1
\* Largest number of characters of a source text drawn by TextInit.
MaxChars == 5
MaxDepth == 2

(***************************************************************************)
(* JSON values.                                                            *)
(***************************************************************************)
Str(s) == [kind |-> "string", val |-> s]
Num(n) == [kind |-> "number", val |-> n]
Bool(b) == [kind |-> "boolean", val |-> b]
Null == [kind |-> "null", val |-> <<>>]
List(items) == [kind |-> "list", val |-> items]
Obj(entries) == [kind |-> "object", val |-> entries]
Entry(n, v) == [name |-> n, value |-> v]

\* JavaScript truthiness of a value (the `value &&` test).
Truthy(v) ==
  CASE v.kind = "string" -> v.val # ""
    [] v.kind = "number" -> v.val # 0
    [] v.kind = "boolean" -> v.val
    [] v.kind = "null" -> FALSE
    [] OTHER -> TRUE

\* JavaScript typeof.
TypeOf(v) ==
  CASE v.kind = "string" -> "string"
    [] v.kind = "number" -> "number"
    [] v.kind = "boolean" -> "boolean"
    [] OTHER -> "object"

\* Array.isArray.
IsArray(v) == v.kind = "list"

\* Object.entries: an object's own entries; a list's items and a string's
\* characters under their indices; nothing for a number or a boolean.
ObjectEntries(v) ==
  CASE v.kind = "object" -> v.val
    [] v.kind = "list" -> [i \in 1..Len(v.val) |-> Entry(ToString(i - 1), v.val[i])]
    [] v.kind = "string" ->
         [i \in 1..Len(v.val) |-> Entry(ToString(i - 1), Str(SubSeq(v.val, i, i)))]
    [] OTHER -> <<>>

\* The test `value && typeof value === 'object' && !Array.isArray(value)`.
IsNestedObject(v) == Truthy(v) /\ TypeOf(v) = "object" /\ ~IsArray(v)

\* fullKey = prefix ? `${prefix}.${key}` : key
FullKey(prefix, key) == IF prefix # "" THEN prefix \o "." \o key ELSE key

(***************************************************************************)
(* A JavaScript Set of strings is a sequence without repetition, in        *)
(* insertion order.                                                        *)
(***************************************************************************)
ToSet(s) == {s[i] : i \in DOMAIN s}

\* Set.prototype.add
SetAdd(s, k) == IF k \in ToSet(s) THEN s ELSE Append(s, k)

RECURSIVE SetAddAll(_, _)
\* t.forEach(k => s.add(k))
SetAddAll(s, t) == IF t = <<>> THEN s ELSE SetAddAll(SetAdd(s, Head(t)), Tail(t))

(***************************************************************************)
(* flattenObject.                                                          *)
(***************************************************************************)
RECURSIVE flattenObject(_, _)
RECURSIVE FlattenLoop(_, _, _, _)
\* The for-loop over Object.entries(obj), from entry i on; keys is the Set
\* built so far.
FlattenLoop(entries, i, prefix, keys) ==
  IF i > Len(entries) THEN keys
  ELSE LET fullKey == FullKey(prefix, entries[i].name)
           next == IF IsNestedObject(entries[i].value)
                   THEN SetAddAll(keys, flattenObject(entries[i].value, fullKey))
                   ELSE SetAdd(keys, fullKey)
       IN FlattenLoop(entries, i + 1, prefix, next)

flattenObject(obj, prefix) == FlattenLoop(ObjectEntries(obj), 1, prefix, <<>>)

(***************************************************************************)
(* removeUnusedKeysFromObject: result is [cleaned, removed], cleaned the   *)
(* new object and removed the list of removed dotted keys.                 *)
(***************************************************************************)
\* Whether a cleaned nested object is put into the result, with the
\* emptiness test dropped (a mutation of KeepNested).
KeepNestedAlways(cleaned) == TRUE

\* Object.keys(nested.cleaned).length > 0
KeepNested(cleaned) == Len(ObjectEntries(cleaned)) > 0

\* The leaf branch with an unused leaf kept in the result although it is
\* recorded as removed (a mutation of RemoveLeaf).
RemoveLeafKeepsUnused(acc, e, fullKey, usedKeys) ==
  IF fullKey \in usedKeys
  THEN [acc EXCEPT !.cleaned = Append(@, e)]
  ELSE [cleaned |-> Append(acc.cleaned, e), removed |-> Append(acc.removed, fullKey)]

\* The leaf branch of the loop: keep the entry if its key is used, else
\* record the key as removed.
RemoveLeaf(acc, e, fullKey, usedKeys) ==
  IF fullKey \in usedKeys
  THEN [acc EXCEPT !.cleaned = Append(@, e)]
  ELSE [acc EXCEPT !.removed = Append(@, fullKey)]

RECURSIVE removeUnusedKeysFromObject(_, _, _)
RECURSIVE RemoveLoop(_, _, _, _, _)
\* The for-loop over Object.entries(obj), from entry i on; acc holds the
\* entries of `result` and the list `removed` built so far.
RemoveLoop(entries, i, usedKeys, prefix, acc) ==
  IF i > Len(entries) THEN acc
  ELSE LET e == entries[i]
           fullKey == FullKey(prefix, e.name)
           next ==
             IF IsNestedObject(e.value)
             THEN LET nested == removeUnusedKeysFromObject(e.value, usedKeys, fullKey)
                  IN [cleaned |-> IF KeepNested(nested.cleaned)
                                  THEN Append(acc.cleaned, Entry(e.name, nested.cleaned))
                                  ELSE acc.cleaned,
                      removed |-> acc.removed \o nested.removed]
             ELSE RemoveLeaf(acc, e, fullKey, usedKeys)
       IN RemoveLoop(entries, i + 1, usedKeys, prefix, next)

removeUnusedKeysFromObject(obj, usedKeys, prefix) ==
  LET r == RemoveLoop(ObjectEntries(obj), 1, usedKeys, prefix,
                      [cleaned |-> <<>>, removed |-> <<>>])
  IN [cleaned |-> Obj(r.cleaned), removed |-> r.removed]

(***************************************************************************)
(* removeUnusedKeysFromObject on a heap: every object is a cell with an    *)
(* address, a property holds a reference to a nested object or a leaf      *)
(* value, and an assignment writes into one cell.                          *)
(***************************************************************************)
Ref(a) == [kind |-> "ref", val |-> a]
IsRef(v) == v.kind = "ref"

RECURSIVE Store(_, _)
RECURSIVE StoreEntries(_, _, _, _)
\* The object t put on the heap, its nested objects after it: [heap, addr].
Store(heap, t) ==
  LET a == Len(heap) + 1
      r == StoreEntries(Append(heap, Obj(<<>>)), ObjectEntries(t), 1, <<>>)
  IN [heap |-> [r.heap EXCEPT ![a] = Obj(r.entries)], addr |-> a]

StoreEntries(heap, entries, i, acc) ==
  IF i > Len(entries) THEN [heap |-> heap, entries |-> acc]
  ELSE IF IsNestedObject(entries[i].value)
       THEN LET r == Store(heap, entries[i].value)
            IN StoreEntries(r.heap, entries, i + 1,
                            Append(acc, Entry(entries[i].name, Ref(r.addr))))
       ELSE StoreEntries(heap, entries, i + 1, Append(acc, entries[i]))

RECURSIVE Load(_, _)
\* The tree of the object at address a.
Load(heap, a) ==
  Obj([i \in DOMAIN heap[a].val |->
         Entry(heap[a].val[i].name,
               IF IsRef(heap[a].val[i].value) THEN Load(heap, heap[a].val[i].value.val)
               ELSE heap[a].val[i].value)])

\* target[key] = value
AssignKey(heap, target, key, value) ==
  [heap EXCEPT ![target] = Obj(Append(@.val, Entry(key, value)))]

\* delete target[key]
DeleteKey(heap, target, key) ==
  [heap EXCEPT ![target] = Obj(SelectSeq(@.val, LAMBDA e : e.name # key))]

\* The leaf branch with the unused key also deleted from obj (a mutation of
\* HeapRemoveLeaf).
HeapRemoveLeafInPlace(acc, e, fullKey, usedKeys) ==
  IF fullKey \in usedKeys
  THEN [acc EXCEPT !.heap = AssignKey(@, acc.result, e.name, e.value)]
  ELSE [acc EXCEPT !.heap = DeleteKey(@, acc.obj, e.name),
                   !.removed = Append(@, fullKey)]

\* The leaf branch of the loop: result[key] = value if the key is used, else
\* removed.push(fullKey).
HeapRemoveLeaf(acc, e, fullKey, usedKeys) ==
  IF fullKey \in usedKeys
  THEN [acc EXCEPT !.heap = AssignKey(@, acc.result, e.name, e.value)]
  ELSE [acc EXCEPT !.removed = Append(@, fullKey)]

RECURSIVE HeapRemove(_, _, _, _)
RECURSIVE HeapRemoveLoop(_, _, _, _, _)
\* The for-loop over Object.entries(obj), the entries taken when the loop
\* starts; acc holds the heap, the addresses of obj and of result, and the
\* list removed.
HeapRemoveLoop(entries, i, usedKeys, prefix, acc) ==
  IF i > Len(entries) THEN acc
  ELSE LET e == entries[i]
           fullKey == FullKey(prefix, e.name)
           next ==
             IF IsRef(e.value)
             THEN LET nested == HeapRemove(acc.heap, e.value.val, usedKeys, fullKey)
                  IN [acc EXCEPT
                        !.heap = IF KeepNested(nested.heap[nested.cleaned])
                                 THEN AssignKey(nested.heap, acc.result, e.name,
                                                Ref(nested.cleaned))
                                 ELSE nested.heap,
                        !.removed = @ \o nested.removed]
             ELSE HeapRemoveLeaf(acc, e, fullKey, usedKeys)
       IN HeapRemoveLoop(entries, i + 1, usedKeys, prefix, next)

\* removeUnusedKeysFromObject(obj, usedKeys, prefix) with obj the object at
\* address obj: [heap, cleaned, removed], cleaned the address of result.
HeapRemove(heap, obj, usedKeys, prefix) ==
  LET r == HeapRemoveLoop(ObjectEntries(heap[obj]), 1, usedKeys, prefix,
                          [heap |-> Append(heap, Obj(<<>>)), obj |-> obj,
                           result |-> Len(heap) + 1, removed |-> <<>>])
  IN [heap |-> r.heap, cleaned |-> r.result, removed |-> r.removed]

(***************************************************************************)
(* Input trees of the pure-function specification.                         *)
(***************************************************************************)
\* Property names: the empty name, a plain name and a name holding a dot.
Names == {"", "a", "a.a"}

\* The leaf values of the generated trees: a string, null and a list.
LeafVals == {Str("x"), Null, List(<<Str("x")>>)}

EntryNames(entries) == {entries[i].name : i \in DOMAIN entries}

RECURSIVE EntriesOfSize(_)
\* Every entry sequence (distinct names) with exactly k nodes in all: a
\* first entry of m nodes before an entry sequence of k - m nodes.
EntriesOfSize(k) ==
  IF k = 0 THEN {<<>>}
  ELSE UNION { LET rests == EntriesOfSize(k - m)
                   vals == IF m = 1 THEN LeafVals \cup {Obj(<<>>)}
                           ELSE {Obj(sub) : sub \in EntriesOfSize(m - 1)}
               IN UNION { { <<Entry(n, v)>> \o rest : n \in Names \ EntryNames(rest),
                                                     v \in vals }
                          : rest \in rests }
               : m \in 1..k }

Trees == UNION { {Obj(es) : es \in EntriesOfSize(k)} : k \in 0..MaxNodes }

(***************************************************************************)
(* Paths of a tree, stated on the kinds of the values (not computed as the *)
(* code computes them).                                                    *)
(***************************************************************************)
IsLeafKind(v) == v.kind \in {"string", "number", "boolean", "null", "list"}

RECURSIVE LeafPaths(_)
\* The name sequences that lead from the root to a leaf value.
LeafPaths(obj) ==
  UNION { IF IsLeafKind(obj.val[i].value)
          THEN {<<obj.val[i].name>>}
          ELSE {<<obj.val[i].name>> \o p : p \in LeafPaths(obj.val[i].value)}
          : i \in DOMAIN obj.val }

RECURSIVE InnerPaths(_)
\* The name sequences that lead from the root to a nested object.
InnerPaths(obj) ==
  UNION { IF IsLeafKind(obj.val[i].value)
          THEN {}
          ELSE {<<obj.val[i].name>>}
               \cup {<<obj.val[i].name>> \o p : p \in InnerPaths(obj.val[i].value)}
          : i \in DOMAIN obj.val }

RECURSIVE Dotted(_)
\* The names of a path joined with dots.
Dotted(p) == IF Len(p) = 1 THEN p[1] ELSE p[1] \o "." \o Dotted(Tail(p))

DottedLeaves(obj) == {Dotted(p) : p \in LeafPaths(obj)}

RECURSIVE EmptyObjects(_)
\* Number of nested objects, at any depth below the root, without entries.
EmptyObjects(obj) ==
  LET F[i \in 0..Len(obj.val)] ==
        IF i = 0 THEN 0
        ELSE F[i - 1] + (IF IsLeafKind(obj.val[i].value) THEN 0
                         ELSE (IF Len(obj.val[i].value.val) = 0 THEN 1 ELSE 0)
                              + EmptyObjects(obj.val[i].value))
  IN F[Len(obj.val)]

\* Number of occurrences of x in the sequence s.
Count(x, s) == Cardinality({i \in DOMAIN s : s[i] = x})

(***************************************************************************)
(* The file system: dictionary files and the source directory.             *)
(***************************************************************************)
\* options.languages and options.namespaces of the checker.
Languages == <<"zh-CN", "en-US">>
Namespaces == <<"console", "common">>

\* The (language, namespace) pairs in the order of the nested loops of
\* KeyCleaner.clean: languages outer, namespaces inner.
Pairs ==
  [i \in 1..(Len(Languages) * Len(Namespaces)) |->
     <<Languages[((i - 1) \div Len(Namespaces)) + 1],
       Namespaces[((i - 1) % Len(Namespaces)) + 1]>>]

\* A dictionary file: absent, text that is not JSON, or the JSON text of a
\* value, with or without a trailing newline.
Absent == [kind |-> "absent"]
Garbage == [kind |-> "garbage"]
JsonFile(v, nl) == [kind |-> "json", data |-> v, newline |-> nl]

\* readFileSafe: the content, or null when the file does not exist.
readFileSafe(file) == IF file.kind = "absent" THEN Null ELSE file

\* JSON.stringify(value, null, 2)
JSONstringify(v) == JsonFile(v, FALSE)

\* parseJsonFile: the parsed data, or null when the file is absent or its
\* content is no JSON.
parseJsonFile(file) ==
  LET content == readFileSafe(file)
  IN IF content.kind = "null" THEN Null
     ELSE IF content.kind = "garbage" THEN Null
     ELSE content.data

RECURSIVE Join(_)
\* The string made of the characters of cs.
Join(cs) == IF cs = <<>> THEN "" ELSE Head(cs) \o Join(Tail(cs))

\* A file of the source tree: the characters of its name (strings of
\* length one), whether fs.readFileSync succeeds on it, and its content, a
\* sequence of characters.
SrcFile(n, r, c) ==
  [isDir |-> FALSE, name |-> Join(n), chars |-> n, readable |-> r, content |-> c,
   listable |-> TRUE, files |-> <<>>]
\* A subdirectory of the source tree: the characters of its name, whether
\* fs.readdirSync succeeds on it, and its entries in the order readdirSync
\* lists them.
SrcSub(n, l, es) ==
  [isDir |-> TRUE, name |-> Join(n), chars |-> n, readable |-> TRUE, content |-> <<>>,
   listable |-> l, files |-> es]
\* The source root: whether it exists, whether fs.readdirSync succeeds on
\* it, and its entries in the order readdirSync lists them.
SrcDir(fs) == [exists |-> TRUE, listable |-> TRUE, files |-> fs]
NoSrcDir == [exists |-> FALSE, listable |-> FALSE, files |-> <<>>]
UnlistableSrcDir == [exists |-> TRUE, listable |-> FALSE, files |-> <<>>]

(***************************************************************************)
(* KeyExtractor.  tFunctionRegex is /\bt\s*\(\s*['"`]([^'"`]+)['"`]/g.     *)
(***************************************************************************)
\* The backquote, which a TLA+ string cannot hold, is written as a name.
Backquote == "<bq>"

\* The class ['"`].
Quotes == {"'", "\"", Backquote}
IsQuote(c) == c \in Quotes

\* The class \s, on the characters of the model.
IsSpace(c) == c \in {" ", "\t", "\n"}

\* The class \w, on the characters of the model: every character that is
\* not one of these is a letter.
NonWordChars == Quotes \cup {" ", "\t", "\n", "(", ")", "$", "{", "}", ".", ";"}
IsWord(c) == c \notin NonWordChars

RECURSIVE SplitLoop(_, _, _, _)
SplitLoop(content, i, cur, acc) ==
  IF i > Len(content) THEN Append(acc, cur)
  ELSE IF content[i] = "\n" THEN SplitLoop(content, i + 1, <<>>, Append(acc, cur))
  ELSE SplitLoop(content, i + 1, Append(cur, content[i]), acc)

\* content.split('\n') taken as the whole content in one line (a mutation
\* of split).
splitNot(content) == <<content>>

\* content.split('\n')
split(content) == SplitLoop(content, 1, <<>>, <<>>)

RECURSIVE SkipSpaces(_, _)
\* \s* from position i: the first position at or after i that holds no
\* space (Len + 1 when there is none).
SkipSpaces(line, i) ==
  IF i <= Len(line) /\ IsSpace(line[i]) THEN SkipSpaces(line, i + 1) ELSE i

RECURSIVE SkipNonQuotes(_, _)
\* [^'"`]* from position i: the first position at or after i that holds a
\* quote (Len + 1 when there is none).
SkipNonQuotes(line, i) ==
  IF i <= Len(line) /\ ~IsQuote(line[i]) THEN SkipNonQuotes(line, i + 1) ELSE i

NoMatch == [found |-> FALSE, open |-> 0, close |-> 0]

\* The regular expression tried at position i of the line: whether it
\* matches there, and the positions of the opening and the closing quote.
MatchAt(line, i) ==
  IF ~(line[i] = "t" /\ (i = 1 \/ ~IsWord(line[i - 1]))) THEN NoMatch
  ELSE LET j == SkipSpaces(line, i + 1)
       IN IF ~(j <= Len(line) /\ line[j] = "(") THEN NoMatch
          ELSE LET k == SkipSpaces(line, j + 1)
               IN IF ~(k <= Len(line) /\ IsQuote(line[k])) THEN NoMatch
                  ELSE LET m == SkipNonQuotes(line, k + 1)
                       IN IF m > k + 1 /\ m <= Len(line)
                          THEN [found |-> TRUE, open |-> k, close |-> m]
                          ELSE NoMatch

\* key.includes('${') || key.includes('{{'), on the characters of the key.
hasInterpolation(cs) ==
  \E p \in 1..(Len(cs) - 1) : cs[p] \in {"$", "{"} /\ cs[p + 1] = "{"

\* The body of the while loop with the deduplication a Set would give (a
\* mutation of PushKey).
PushKeyOnce(keys, cs, file, lineNo, at) ==
  IF cs # <<>> /\ ~hasInterpolation(cs) /\ \A x \in DOMAIN keys : keys[x].key # Join(cs)
  THEN Append(keys, [key |-> Join(cs), file |-> file, line |-> lineNo,
                     chars |-> cs, at |-> at])
  ELSE keys

\* The body of the while loop without the test of hasInterpolation (a
\* mutation of PushKey).
PushKeyAlways(keys, cs, file, lineNo, at) ==
  IF cs # <<>>
  THEN Append(keys, [key |-> Join(cs), file |-> file, line |-> lineNo,
                     chars |-> cs, at |-> at])
  ELSE keys

\* The body of the while loop: `if (key && !this.hasInterpolation(key))
\* keys.push({ key, file, line })`.  The record of the model also keeps
\* the characters of the key and the position of the match in the line,
\* which the properties below read.
PushKey(keys, cs, file, lineNo, at) ==
  IF cs # <<>> /\ ~hasInterpolation(cs)
  THEN Append(keys, [key |-> Join(cs), file |-> file, line |-> lineNo,
                     chars |-> cs, at |-> at])
  ELSE keys

RECURSIVE ExecLoop(_, _, _, _, _)
\* `while ((match = regex.exec(line)) !== null)`: the search goes on from
\* position i (lastIndex + 1); after a match it goes on behind the closing
\* quote.
ExecLoop(line, i, file, lineNo, keys) ==
  IF i > Len(line) THEN keys
  ELSE LET mt == MatchAt(line, i)
       IN IF mt.found
          THEN ExecLoop(line, mt.close + 1, file, lineNo,
                        PushKey(keys, SubSeq(line, mt.open + 1, mt.close - 1),
                                file, lineNo, i))
          ELSE ExecLoop(line, i + 1, file, lineNo, keys)

RECURSIVE LinesLoop(_, _, _, _)
\* lines.forEach((line, index) => ...), from line n on.
LinesLoop(lines, n, file, keys) ==
  IF n > Len(lines) THEN keys
  ELSE LinesLoop(lines, n + 1, file, ExecLoop(lines[n], 1, file, n, keys))

\* extractFromFile: the records of the file's matches, line by line, pushed
\* onto keys.
extractFromFile(file, keys) == LinesLoop(split(file.content), 1, file.name, keys)

\* DEFAULT_SCAN_OPTIONS
extensions ==
  <<<<".", "t", "s">>, <<".", "t", "s", "x">>, <<".", "j", "s">>, <<".", "j", "s", "x">>>>
excludeDirs == <<"node_modules", ".git", "dist", "build", "output">>

\* name.endsWith(ext), on the characters of both.
EndsWith(name, ext) ==
  /\ Len(name) >= Len(ext)
  /\ SubSeq(name, Len(name) - Len(ext) + 1, Len(name)) = ext

\* The extension test passed by every name (a mutation of
\* HasSourceExtension).
HasAnyExtension(name) == TRUE

\* opts.extensions.some(ext => entry.name.endsWith(ext))
HasSourceExtension(name) == \E i \in DOMAIN extensions : EndsWith(name, extensions[i])

\* opts.excludeDirs.includes(entry.name)
IsExcluded(name) == \E i \in DOMAIN excludeDirs : excludeDirs[i] = name

\* path.join(dir, entry.name), as a path relative to the source root.
PathJoin(dir, name) == IF dir = "" THEN name ELSE dir \o "/" \o name

NoFiles == [threw |-> FALSE, files |-> <<>>]

RECURSIVE scanDirectory(_, _)
RECURSIVE ScanEntries(_, _, _)
\* scanDirectory(dir, onFile): [threw, files], the files onFile is called
\* with, in the order of the calls, each under its full path; a directory
\* that cannot be listed makes fs.readdirSync throw out of the whole walk.
scanDirectory(dir, path) ==
  IF ~dir.exists THEN NoFiles
  ELSE IF ~dir.listable THEN [threw |-> TRUE, files |-> <<>>]
  ELSE ScanEntries(dir.files, 1, path)

\* for (const entry of entries), from entry i on.
ScanEntries(entries, i, path) ==
  IF i > Len(entries) THEN NoFiles
  ELSE LET entry == entries[i]
           fullPath == PathJoin(path, entry.name)
           this == IF entry.isDir
                   THEN IF ~IsExcluded(entry.name)
                        THEN scanDirectory([exists |-> TRUE, listable |-> entry.listable,
                                            files |-> entry.files], fullPath)
                        ELSE NoFiles
                   ELSE IF HasSourceExtension(entry.chars)
                        THEN [threw |-> FALSE, files |-> <<[entry EXCEPT !.name = fullPath]>>]
                        ELSE NoFiles
       IN IF this.threw THEN this
          ELSE LET rest == ScanEntries(entries, i + 1, path)
               IN IF rest.threw THEN rest
                  ELSE [threw |-> FALSE, files |-> this.files \o rest.files]

RECURSIVE ExtractLoop(_, _, _)
\* The calls of extractFromFile on the files of the walk; reading an
\* unreadable file throws out of the walk.
ExtractLoop(files, i, keys) ==
  IF i > Len(files) THEN [threw |-> FALSE, keys |-> keys]
  ELSE IF ~files[i].readable THEN [threw |-> TRUE, keys |-> <<>>]
  ELSE ExtractLoop(files, i + 1, extractFromFile(files[i], keys))

\* extract: [threw, keys]; a source root that does not exist gives no keys.
extract(dir) ==
  LET walk == scanDirectory(dir, "")
  IN IF walk.threw THEN [threw |-> TRUE, keys |-> <<>>]
     ELSE ExtractLoop(walk.files, 1, <<>>)

(***************************************************************************)
(* LocaleReader.                                                           *)
(***************************************************************************)
\* readNamespace: the flattened keys of one file, or the empty Set.
readNamespace(files, lang, ns) ==
  LET data == parseJsonFile(files[<<lang, ns>>])
  IN IF ~Truthy(data) THEN <<>> ELSE flattenObject(data, "")

RECURSIVE ReadLanguageLoop(_, _, _, _)
\* The for-loop of readLanguage over the namespaces, from namespace i on.
ReadLanguageLoop(files, lang, i, allKeys) ==
  IF i > Len(Namespaces) THEN allKeys
  ELSE ReadLanguageLoop(files, lang, i + 1,
                        SetAddAll(allKeys, readNamespace(files, lang, Namespaces[i])))

readLanguage(files, lang) == ReadLanguageLoop(files, lang, 1, <<>>)

RECURSIVE ReadAllLoop(_, _, _)
\* The keys of the languages from language i on, added to one Set.
ReadAllLoop(files, i, allKeys) ==
  IF i > Len(Languages) THEN allKeys
  ELSE ReadAllLoop(files, i + 1, SetAddAll(allKeys, readLanguage(files, Languages[i])))

\* read with one Set shared by every language instead of a Set of its own
\* for each (a mutation of read).
readSharedSet(files) == [l \in ToSet(Languages) |-> ReadAllLoop(files, 1, <<>>)]

\* read with no entry for a language whose files gave no key (a mutation of
\* read).
readOmitsEmpty(files) ==
  [l \in {x \in ToSet(Languages) : readLanguage(files, x) # <<>>} |-> readLanguage(files, l)]

\* read: the Map language -> Set of keys, an entry for every language.
read(files) == [l \in ToSet(Languages) |-> readLanguage(files, l)]

(***************************************************************************)
(* KeyComparator.                                                          *)
(***************************************************************************)
\* Map.prototype.set on a Map held as a function.
MapSet(m, k, v) == [x \in (DOMAIN m) \cup {k} |-> IF x = k THEN v ELSE m[x]]

\* new Set(usedKeys.map(k => k.key))
NewKeySet(records) == SetAddAll(<<>>, [i \in DOMAIN records |-> records[i].key])

\* analyzeLanguage with the unused keys collected whatever checkUnused is
\* (a mutation of analyzeLanguage).
analyzeLanguageAlwaysUnused(usedKeys, definedKeys, checkUnused) ==
  [missing |-> SelectSeq(usedKeys, LAMBDA k : k \notin ToSet(definedKeys)),
   unused |-> SelectSeq(definedKeys, LAMBDA k : k \notin ToSet(usedKeys))]

\* analyzeLanguage with the membership test of the missing keys inverted
\* (a mutation of analyzeLanguage).
analyzeLanguageInverted(usedKeys, definedKeys, checkUnused) ==
  [missing |-> SelectSeq(usedKeys, LAMBDA k : k \in ToSet(definedKeys)),
   unused |-> IF checkUnused
              THEN SelectSeq(definedKeys, LAMBDA k : k \notin ToSet(usedKeys))
              ELSE <<>>]

\* analyzeLanguage: the used keys the language lacks and, when asked for,
\* the defined keys that are not used, each in Set iteration order.
analyzeLanguage(usedKeys, definedKeys, checkUnused) ==
  [missing |-> SelectSeq(usedKeys, LAMBDA k : k \notin ToSet(definedKeys)),
   unused |-> IF checkUnused
              THEN SelectSeq(definedKeys, LAMBDA k : k \notin ToSet(usedKeys))
              ELSE <<>>]

\* The body of compare's loop with hasErrors set for unused keys as well
\* (a mutation of CompareStep).
CompareStepUnusedIsError(acc, lang, analysis) ==
  [missingKeys |-> IF Len(analysis.missing) > 0
                   THEN MapSet(acc.missingKeys, lang, analysis.missing)
                   ELSE acc.missingKeys,
   unusedKeys |-> IF Len(analysis.unused) > 0
                  THEN MapSet(acc.unusedKeys, lang, analysis.unused)
                  ELSE acc.unusedKeys,
   hasErrors |-> acc.hasErrors \/ Len(analysis.missing) > 0 \/ Len(analysis.unused) > 0]

\* The body of compare's loop for one language.
CompareStep(acc, lang, analysis) ==
  [missingKeys |-> IF Len(analysis.missing) > 0
                   THEN MapSet(acc.missingKeys, lang, analysis.missing)
                   ELSE acc.missingKeys,
   unusedKeys |-> IF Len(analysis.unused) > 0
                  THEN MapSet(acc.unusedKeys, lang, analysis.unused)
                  ELSE acc.unusedKeys,
   hasErrors |-> acc.hasErrors \/ Len(analysis.missing) > 0]

RECURSIVE CompareLoop(_, _, _, _, _)
\* compare's loop over the entries of definedKeys, in Map order (the order
\* of options.languages), from entry i on.
CompareLoop(i, usedKeySet, defined, checkUnused, acc) ==
  IF i > Len(Languages) THEN acc
  ELSE CompareLoop(i + 1, usedKeySet, defined, checkUnused,
                   CompareStep(acc, Languages[i],
                               analyzeLanguage(usedKeySet, defined[Languages[i]],
                                               checkUnused)))

\* compare: the CheckResult.
compare(records, defined, options) ==
  LET usedKeySet == NewKeySet(records)
      r == CompareLoop(1, usedKeySet, defined, options.checkUnused,
                       [missingKeys |-> <<>>, unusedKeys |-> <<>>, hasErrors |-> FALSE])
  IN [hasErrors |-> r.hasErrors,
      usedKeys |-> usedKeySet,
      definedKeys |-> defined,
      missingKeys |-> r.missingKeys,
      unusedKeys |-> r.unusedKeys]

RECURSIVE SumLen(_, _)
\* Array.from(map.values()).reduce((sum, arr) => sum + arr.length, 0)
SumLen(m, keys) ==
  IF keys = {} THEN 0
  ELSE LET k == CHOOSE x \in keys : TRUE
       IN Len(m[k]) + SumLen(m, keys \ {k})

TotalLen(m) == SumLen(m, DOMAIN m)

\* map.get(k) || d
MapGetOr(m, k, d) == IF k \in DOMAIN m THEN m[k] ELSE d

\* A line of the console: the Logger method that printed it, its fixed
\* text, and the key, file and numbers it carries.
Line(log, text, key, file, n, m) ==
  [log |-> log, text |-> text, key |-> key, file |-> file, n |-> n, m |-> m]

\* usedKeysList.find(k => k.key === key): the first record with the key, or
\* undefined.
RECURSIVE Find(_, _, _)
Find(records, key, i) ==
  IF i > Len(records) THEN [found |-> FALSE, file |-> "", line |-> 0]
  ELSE IF records[i].key = key
       THEN [found |-> TRUE, file |-> records[i].file, line |-> records[i].line]
       ELSE Find(records, key, i + 1)

\* for (const key of missing): the key, and its place of use if it has one.
RECURSIVE MissingLines(_, _, _)
MissingLines(missing, usedKeysList, i) ==
  IF i > Len(missing) THEN <<>>
  ELSE LET usage == Find(usedKeysList, missing[i], 1)
       IN <<Line("error", "key", missing[i], "", 0, 0)>>
            \o (IF usage.found
                THEN <<Line("dim", "usage", missing[i], usage.file, usage.line, 0)>>
                ELSE <<>>)
            \o MissingLines(missing, usedKeysList, i + 1)

\* for (const key of unused).
UnusedLines(unused) ==
  [i \in DOMAIN unused |-> Line("warning", "key", unused[i], "", 0, 0)]

\* reportLanguage: nothing for a language without issues, else its header
\* and its missing and unused keys in the order of the lists.
reportLanguage(language, langKeys, usedKeySet, missingKeys, unusedKeys, usedKeysList) ==
  LET missing == MapGetOr(missingKeys, language, <<>>)
      unused == MapGetOr(unusedKeys, language, <<>>)
  IN IF Len(missing) = 0 /\ Len(unused) = 0 THEN <<>>
     ELSE <<Line("language", language, "", "", 0, 0),
            Line("info", "Defined keys | Used keys", "", "", Len(langKeys), Len(usedKeySet))>>
          \o (IF Len(missing) > 0
              THEN <<Line("sectionTitle", "Missing translations:", "", "", 0, 0)>>
                     \o MissingLines(missing, usedKeysList, 1)
              ELSE <<>>)
          \o (IF Len(unused) > 0
              THEN <<Line("sectionTitle", "Unused translations:", "", "", 0, 0)>>
                     \o UnusedLines(unused)
              ELSE <<>>)

\* for (const [lang, langKeys] of definedKeys): the entries of the Map in
\* the order read has set them.
RECURSIVE ReportLoop(_, _, _)
ReportLoop(i, res, usedKeysList) ==
  IF i > Len(Languages) THEN <<>>
  ELSE (IF Languages[i] \in DOMAIN res.definedKeys
        THEN reportLanguage(Languages[i], res.definedKeys[Languages[i]],
                            res.usedKeys, res.missingKeys, res.unusedKeys,
                            usedKeysList)
        ELSE <<>>)
       \o ReportLoop(i + 1, res, usedKeysList)

\* The summary of report.
SummaryLines(res, totalMissing, totalUnused, shouldRemoveUnused) ==
  IF res.hasErrors
  THEN <<Line("error", "Check failed", "", "", 0, 0),
         Line("info", "Missing", "", "", totalMissing, 0)>>
       \o (IF totalUnused > 0 /\ ~shouldRemoveUnused
           THEN <<Line("info", "Unused", "", "", totalUnused, 0)>>
           ELSE <<>>)
  ELSE IF totalUnused > 0 /\ ~shouldRemoveUnused
  THEN <<Line("success", "All required translations present", "", "", 0, 0),
         Line("info", "Unused", "", "", totalUnused, 0)>>
  ELSE <<Line("success", "Perfect! All translations match", "", "", 0, 0),
         Line("info", "Keys checked", "", "", Len(res.usedKeys), 0)>>

\* KeyComparator.report: the lines it logs.
report(usedKeysList, res, shouldRemoveUnused) ==
  LET totalMissing == TotalLen(res.missingKeys)
      totalUnused == TotalLen(res.unusedKeys)
  IN IF ~res.hasErrors /\ totalUnused = 0
     THEN <<Line("success", "All translation keys are in sync", "", "", 0, 0)>>
     ELSE <<Line("title", "i18next Translation Checker", "", "", 0, 0),
            Line("info", "Scanning keys across languages", "", "",
                 Len(res.usedKeys), Cardinality(DOMAIN res.definedKeys)),
            Line("divider", "", "", "", 0, 0)>>
          \o ReportLoop(1, res, usedKeysList)
          \o <<Line("divider", "", "", "", 0, 0),
               Line("summary", "Summary", "", "", 0, 0)>>
          \o SummaryLines(res, totalMissing, totalUnused, shouldRemoveUnused)
          \o <<Line("plain", "", "", "", 0, 0)>>

(***************************************************************************)
(* KeyCleaner.                                                             *)
(***************************************************************************)
\* How a call of fs.writeFileSync can end: the content is written; the call
\* throws before the file is opened for writing (the file is as it was); or
\* it throws after the file was opened with flag 'w' (the file is cut short
\* and is no JSON text any more).
WriteOutcomes == {"written", "refused", "truncated"}

\* writeFileSafe: the file after the call, and the returned boolean.
writeFileSafe(file, content, w) ==
  [file |-> CASE w = "written" -> content
              [] w = "refused" -> file
              [] OTHER -> Garbage,
   ok |-> (w = "written")]

\* cleanFile with the file rewritten but its removals not returned (a
\* mutation of cleanFile).
cleanFileReturnsZero(file, usedKeys, w) ==
  LET data == parseJsonFile(file)
      r == removeUnusedKeysFromObject(data, usedKeys, "")
      wr == writeFileSafe(file, [JSONstringify(r.cleaned) EXCEPT !.newline = TRUE], w)
  IN IF ~Truthy(data) THEN [file |-> file, count |-> 0, failed |-> FALSE]
     ELSE IF Len(r.removed) > 0
          THEN [file |-> wr.file, count |-> 0, failed |-> ~wr.ok]
          ELSE [file |-> file, count |-> 0, failed |-> FALSE]

\* cleanFile with the cleaned tree written whether or not a key was removed
\* (a mutation of cleanFile).
cleanFileWritesAlways(file, usedKeys, w) ==
  LET data == parseJsonFile(file)
      r == removeUnusedKeysFromObject(data, usedKeys, "")
      wr == writeFileSafe(file, [JSONstringify(r.cleaned) EXCEPT !.newline = TRUE], w)
  IN IF ~Truthy(data) THEN [file |-> file, count |-> 0, failed |-> FALSE]
     ELSE IF wr.ok
          THEN [file |-> wr.file, count |-> Len(r.removed), failed |-> FALSE]
          ELSE [file |-> wr.file, count |-> 0, failed |-> TRUE]

\* cleanFile on one dictionary file: the file after the call, the returned
\* count, and whether a write was tried and failed.  w is how the call of
\* fs.writeFileSync ends, should writeFileSafe be called; the written
\* content is JSON.stringify(cleaned, null, 2) + '\n'.
cleanFile(file, usedKeys, w) ==
  LET data == parseJsonFile(file)
      r == removeUnusedKeysFromObject(data, usedKeys, "")
      wr == writeFileSafe(file, [JSONstringify(r.cleaned) EXCEPT !.newline = TRUE], w)
  IN IF ~Truthy(data) THEN [file |-> file, count |-> 0, failed |-> FALSE]
     ELSE IF Len(r.removed) > 0
          THEN IF wr.ok
               THEN [file |-> wr.file, count |-> Len(r.removed), failed |-> FALSE]
               ELSE [file |-> wr.file, count |-> 0, failed |-> TRUE]
          ELSE [file |-> file, count |-> Len(r.removed), failed |-> FALSE]

\* The accumulation of clean's loop written as an assignment (a mutation of
\* AddRemoved).
AddRemovedOverwrites(total, removed) == removed

\* The accumulation of clean's loop counting the files with removals
\* instead of the removals (a mutation of AddRemoved).
AddRemovedCountsFiles(total, removed) == total + (IF removed > 0 THEN 1 ELSE 0)

\* totalRemoved += removed
AddRemoved(total, removed) == total + removed

(***************************************************************************)
(* I18nextChecker.check, step 5 and step 6.                                *)
(***************************************************************************)
\* The guard of step 5 with the failure of step 6 taken first: no cleaning
\* when the check is about to throw (a mutation of ShouldClean).
ShouldCleanUnlessFailing(options, res) ==
  /\ options.removeUnused /\ options.checkUnused /\ TotalLen(res.unusedKeys) > 0
  /\ ~(res.hasErrors /\ options.failOnError)

\* The guard of step 5 without the test of removeUnused (a mutation of
\* ShouldClean).
ShouldCleanNoRemoveTest(options, res) ==
  options.checkUnused /\ TotalLen(res.unusedKeys) > 0

\* Step 5: the cleaner runs when removeUnused and checkUnused are set and
\* the unused lists of the result hold a key.
ShouldClean(options, res) ==
  options.removeUnused /\ options.checkUnused /\ TotalLen(res.unusedKeys) > 0

\* Step 6: the error is thrown when the result has errors and failOnError
\* is set.
ShouldThrow(options, res) == res.hasErrors /\ options.failOnError

(***************************************************************************)
(* State.                                                                  *)
(***************************************************************************)
VARIABLES
  src,          \* the source directory
  disk,         \* the dictionary file of every (language, namespace) pair
  opts,         \* the options of the I18nextChecker
  pc,           \* where the running check or clean stands ("idle": none runs)
  mode,         \* the running (or last) call: "check" or "clean"
  runs,         \* number of calls started
  usedKeys,     \* check: the records returned by extract
  definedKeys,  \* check: the Map returned by read
  result,       \* check: the CheckResult returned by compare
  cleanArg,     \* clean: its usedKeys argument
  idx,          \* clean: the position of its loops in Pairs
  totalRemoved, \* clean: its totalRemoved
  counts,       \* clean: what cleanFile returned for the pairs done so far
  writeFailed,  \* whether a write of this call failed
  invoked,      \* check: whether it called cleaner.clean
  failures,     \* number of writes that failed so far
  outcome,      \* how the last call ended
  diskAtStart,  \* the dictionaries when this call started
  hist,         \* one record per call that ended
  reported,     \* check: the lines report has logged in this call
  pT, pU, pFlat, pPrune, ppc,  \* flattenObject and removeUnusedKeysFromObject applied alone
  pHeap,        \* the heap of that call: the objects of pT, then those the call makes
  pCleaned,     \* the address of the cleaned object the call returned (0: none yet)
  tSrc, tRecs, tpc,            \* KeyExtractor.extract applied alone
  projectRoot,  \* plugin: its projectRoot ("" until it is set)
  checker,      \* plugin: whether its checker is defined
  lastConfig,   \* plugin: the root of the last configResolved call ("none": no call yet)
  checkRoot,    \* plugin: the projectRoot argument of the last check buildStart made
  viaHook       \* plugin: whether buildStart made the running (or last) check

sysVars == <<src, disk, opts, pc, mode, runs, usedKeys, definedKeys, result, cleanArg,
             idx, totalRemoved, counts, writeFailed, invoked, failures, outcome, diskAtStart,
             hist, reported>>
pureVars == <<pT, pU, pFlat, pPrune, ppc, pHeap, pCleaned>>
textVars == <<tSrc, tRecs, tpc>>
plugVars == <<projectRoot, checker, lastConfig, checkRoot, viaHook>>
vars == <<sysVars, pureVars, textVars, plugVars>>

NoResult ==
  [hasErrors |-> FALSE, usedKeys |-> <<>>, definedKeys |-> <<>>,
   missingKeys |-> <<>>, unusedKeys |-> <<>>]

NoPrune == [cleaned |-> Obj(<<>>), removed |-> <<>>]

(***************************************************************************)
(* Initial file systems and options.                                       *)
(***************************************************************************)
\* Dictionaries of the "console" namespace.
SaveOnly == Obj(<<Entry("common", Obj(<<Entry("save", Str("s"))>>))>>)
CancelOnly == Obj(<<Entry("common", Obj(<<Entry("cancel", Str("c"))>>))>>)
SaveAndCancel ==
  Obj(<<Entry("common", Obj(<<Entry("save", Str("s")), Entry("cancel", Str("c"))>>))>>)
SaveAndEmpty ==
  Obj(<<Entry("common", Obj(<<Entry("save", Str("s")), Entry("empty", Obj(<<>>))>>))>>)
SaveAndDeadBranch ==
  Obj(<<Entry("common",
              Obj(<<Entry("save", Str("s")),
                    Entry("dead", Obj(<<Entry("leaf", Str("y"))>>))>>))>>)
\* A dictionary of the "common" namespace: a key under a dotted name, a
\* list and a null.
DottedAndList ==
  Obj(<<Entry("common.save", Str("s")), Entry("items", List(<<Str("i")>>)),
        Entry("dead", Obj(<<Entry("leaf", Null)>>))>>)

ConsoleFiles ==
  {Absent, Garbage} \cup
  {JsonFile(t, FALSE) : t \in {SaveOnly, CancelOnly, SaveAndCancel, SaveAndDeadBranch}}
CommonFiles == {Absent, JsonFile(DottedAndList, FALSE)}

\* The files a pair may hold at the start: en-US has no "common" file.
FilesAt(p) ==
  IF p[2] = Namespaces[1] THEN ConsoleFiles
  ELSE IF p[1] = Languages[1] THEN CommonFiles
  ELSE {Absent}

Disks ==
  {d \in [ToSet(Pairs) -> ConsoleFiles \cup CommonFiles] :
     \A p \in ToSet(Pairs) : d[p] \in FilesAt(p)}

\* The characters of the keys the source files use.
CommonSave == <<"c", "o", "m", "m", "o", "n", ".", "s", "a", "v", "e">>
CommonCancel == <<"c", "o", "m", "m", "o", "n", ".", "c", "a", "n", "c", "e", "l">>

\* The names of the source files.
ATs == <<"a", ".", "t", "s">>
BTsx == <<"b", ".", "t", "s", "x">>

\* The text t('<key>').
Call(k) == <<"t", "(", "'">> \o k \o <<"'", ")">>

Sources ==
  {NoSrcDir, UnlistableSrcDir,
   SrcDir(<<SrcFile(ATs, TRUE, Call(CommonSave))>>),
   SrcDir(<<SrcFile(ATs, TRUE, Call(CommonSave) \o <<"\n">> \o Call(CommonCancel)),
            SrcFile(BTsx, TRUE, Call(CommonSave))>>),
   SrcDir(<<SrcFile(ATs, TRUE, Call(CommonSave)),
            SrcFile(BTsx, FALSE, Call(CommonCancel))>>)}

Options == [failOnError : BOOLEAN, checkUnused : BOOLEAN, removeUnused : BOOLEAN]

\* The static keys of the source files, whether or not the files can be
\* read: the usedKeys argument a caller passes to clean.
RECURSIVE SourceKeys(_, _)
SourceKeys(files, i) ==
  IF i > Len(files) THEN {}
  ELSE LET recs == extractFromFile(files[i], <<>>)
       IN {recs[x].key : x \in DOMAIN recs} \cup SourceKeys(files, i + 1)

PureOff ==
  /\ pT = Obj(<<>>) /\ pU = {} /\ pFlat = <<>> /\ pPrune = NoPrune /\ ppc = "off"
  /\ pHeap = <<>> /\ pCleaned = 0

TextOff == tSrc = NoSrcDir /\ tRecs = <<>> /\ tpc = "off"

\* The plugin as i18nextChecker(options) returns it: no checker yet, and
\* projectRoot the empty string.
PlugOff ==
  /\ projectRoot = "" /\ checker = FALSE /\ lastConfig = "none"
  /\ checkRoot = "none" /\ viaHook = FALSE

Init ==
  /\ src \in Sources
  /\ disk \in Disks
  /\ opts \in Options
  /\ pc = "idle" /\ mode = "none" /\ runs = 0
  /\ usedKeys = <<>> /\ definedKeys = <<>> /\ result = NoResult
  /\ cleanArg = {} /\ idx = 0 /\ totalRemoved = 0 /\ counts = <<>>
  /\ writeFailed = FALSE /\ invoked = FALSE /\ failures = 0 /\ outcome = "none"
  /\ diskAtStart = disk /\ hist = <<>> /\ reported = <<>>
  /\ PureOff /\ TextOff /\ PlugOff

(***************************************************************************)
(* Actions of a check and of a clean.                                      *)
(***************************************************************************)
\* What a call leaves in hist when it ends.
Summary(out) ==
  [mode |-> mode, usedKeys |-> cleanArg, total |-> totalRemoved, outcome |-> out,
   writeFailed |-> writeFailed, start |-> diskAtStart, root |-> checkRoot]

\* check(projectRoot) is called.
StartCheck ==
  /\ pc = "idle" /\ runs < MaxRuns
  /\ pc' = "extract" /\ mode' = "check" /\ runs' = runs + 1
  /\ usedKeys' = <<>> /\ definedKeys' = <<>> /\ result' = NoResult
  /\ cleanArg' = {} /\ idx' = 0 /\ totalRemoved' = 0 /\ counts' = <<>>
  /\ writeFailed' = FALSE /\ invoked' = FALSE /\ outcome' = "running"
  /\ diskAtStart' = disk /\ reported' = <<>>
  /\ UNCHANGED <<src, disk, opts, failures, hist, pureVars, textVars, plugVars>>

\* Step 1: extract; an exception of the walk ends the check.
Extract ==
  /\ pc = "extract"
  /\ LET r == extract(src)
     IN IF r.threw
        THEN /\ pc' = "idle" /\ outcome' = "ioerror"
             /\ hist' = Append(hist, Summary("ioerror"))
             /\ UNCHANGED usedKeys
        ELSE /\ pc' = "read" /\ usedKeys' = r.keys
             /\ UNCHANGED <<outcome, hist>>
  /\ UNCHANGED <<src, disk, opts, mode, runs, definedKeys, result, cleanArg, idx,
                 totalRemoved, counts, writeFailed, invoked, failures, diskAtStart, pureVars, textVars, plugVars, reported>>

\* Step 2: read.
Read ==
  /\ pc = "read"
  /\ definedKeys' = read(disk)
  /\ pc' = "compare"
  /\ UNCHANGED <<src, disk, opts, mode, runs, usedKeys, result, cleanArg, idx,
                 totalRemoved, counts, writeFailed, invoked, failures, outcome, diskAtStart,
                 hist, pureVars, textVars, plugVars, reported>>

\* Step 3: compare.
Compare ==
  /\ pc = "compare"
  /\ result' = compare(usedKeys, definedKeys, opts)
  /\ pc' = "report"
  /\ UNCHANGED <<src, disk, opts, mode, runs, usedKeys, definedKeys, cleanArg, idx,
                 totalRemoved, counts, writeFailed, invoked, failures, outcome, diskAtStart,
                 hist, pureVars, textVars, plugVars, reported>>

\* Step 4: report; its lines go to the console.
Report ==
  /\ pc = "report"
  /\ reported' = report(usedKeys, result, opts.removeUnused)
  /\ pc' = "step5"
  /\ UNCHANGED <<src, disk, opts, mode, runs, usedKeys, definedKeys, result, cleanArg,
                 idx, totalRemoved, counts, writeFailed, invoked, failures, outcome, diskAtStart,
                 hist, pureVars, textVars, plugVars>>

\* Step 5, guard true: cleaner.clean is called with result.usedKeys.
BeginClean ==
  /\ pc = "step5" /\ ShouldClean(opts, result)
  /\ pc' = "clean" /\ invoked' = TRUE
  /\ cleanArg' = ToSet(result.usedKeys)
  /\ idx' = 1 /\ totalRemoved' = 0 /\ counts' = <<>>
  /\ UNCHANGED <<src, disk, opts, mode, runs, usedKeys, definedKeys, result,
                 writeFailed, failures, outcome, diskAtStart, hist, pureVars, textVars, plugVars, reported>>

\* Step 5, guard false.
SkipClean ==
  /\ pc = "step5" /\ ~ShouldClean(opts, result)
  /\ pc' = "finish"
  /\ UNCHANGED <<src, disk, opts, mode, runs, usedKeys, definedKeys, result, cleanArg,
                 idx, totalRemoved, counts, writeFailed, invoked, failures, outcome, diskAtStart,
                 hist, pureVars, textVars, plugVars, reported>>

\* clean(localeDir, languages, namespaces, usedKeys) is called on its own,
\* with the keys of the source files.
StartClean ==
  /\ pc = "idle" /\ runs < MaxRuns
  /\ pc' = "clean" /\ mode' = "clean" /\ runs' = runs + 1
  /\ usedKeys' = <<>> /\ definedKeys' = <<>> /\ result' = NoResult
  /\ cleanArg' = SourceKeys(src.files, 1)
  /\ idx' = 1 /\ totalRemoved' = 0 /\ counts' = <<>>
  /\ writeFailed' = FALSE /\ invoked' = FALSE /\ outcome' = "running"
  /\ diskAtStart' = disk /\ reported' = <<>>
  /\ UNCHANGED <<src, disk, opts, failures, hist, pureVars, textVars, plugVars>>

\* One pass of clean's inner loop: cleanFile on the next pair; the write,
\* if there is one, succeeds or fails.
CleanFile ==
  /\ pc = "clean" /\ idx <= Len(Pairs)
  /\ \E w \in (IF failures < MaxWriteFailures THEN WriteOutcomes ELSE {"written"}) :
       LET r == cleanFile(disk[Pairs[idx]], cleanArg, w)
       IN /\ disk' = [disk EXCEPT ![Pairs[idx]] = r.file]
          /\ totalRemoved' = AddRemoved(totalRemoved, r.count)
          /\ counts' = Append(counts, r.count)
          /\ writeFailed' = (writeFailed \/ r.failed)
          /\ failures' = failures + (IF r.failed THEN 1 ELSE 0)
  /\ idx' = idx + 1
  /\ UNCHANGED <<src, opts, pc, mode, runs, usedKeys, definedKeys, result, cleanArg,
                 invoked, outcome, diskAtStart, hist, pureVars, textVars, plugVars, reported>>

\* clean returns totalRemoved: to check's step 6, or to its caller.
CleanReturn ==
  /\ pc = "clean" /\ idx > Len(Pairs)
  /\ IF mode = "check"
     THEN /\ pc' = "finish"
          /\ UNCHANGED <<outcome, hist>>
     ELSE /\ pc' = "idle" /\ outcome' = "returned"
          /\ hist' = Append(hist, Summary("returned"))
  /\ UNCHANGED <<src, disk, opts, mode, runs, usedKeys, definedKeys, result, cleanArg,
                 idx, totalRemoved, counts, writeFailed, invoked, failures, diskAtStart, pureVars, textVars, plugVars, reported>>

\* Step 6: throw the error or return the result.
Finish ==
  /\ pc = "finish"
  /\ pc' = "idle"
  /\ outcome' = IF ShouldThrow(opts, result) THEN "failed" ELSE "returned"
  /\ hist' = Append(hist, Summary(outcome'))
  /\ UNCHANGED <<src, disk, opts, mode, runs, usedKeys, definedKeys, result, cleanArg,
                 idx, totalRemoved, counts, writeFailed, invoked, failures, diskAtStart, pureVars, textVars, plugVars, reported>>

Next ==
  \/ StartCheck \/ Extract \/ Read \/ Compare \/ Report \/ BeginClean \/ SkipClean
  \/ StartClean \/ CleanFile \/ CleanReturn \/ Finish

Spec == Init /\ [][Next]_vars

(***************************************************************************)
(* Checks and cleanings over dictionary files whose JSON text is not that  *)
(* of an object.                                                           *)
(***************************************************************************)
\* JSON texts with a list, a string, a number or a boolean at the top.
NonObjectFiles ==
  {JsonFile(v, FALSE) : v \in {List(<<Str("i")>>), List(<<>>), List(<<SaveOnly>>),
                               Str("s"), Str(""), Num(5), Num(0), Bool(TRUE), Bool(FALSE)}}

NonObjectDisks ==
  {d \in [ToSet(Pairs) -> NonObjectFiles \cup {Absent, JsonFile(SaveAndCancel, FALSE)}] :
     /\ d[<<"zh-CN", "console">>] \in NonObjectFiles
     /\ d[<<"zh-CN", "common">>] \in {Absent, JsonFile(SaveAndCancel, FALSE)}
     /\ d[<<"en-US", "console">>] = JsonFile(SaveAndCancel, FALSE)
     /\ d[<<"en-US", "common">>] = Absent}

NonObjectInit ==
  /\ src \in Sources
  /\ disk \in NonObjectDisks
  /\ opts \in Options
  /\ pc = "idle" /\ mode = "none" /\ runs = 0
  /\ usedKeys = <<>> /\ definedKeys = <<>> /\ result = NoResult
  /\ cleanArg = {} /\ idx = 0 /\ totalRemoved = 0 /\ counts = <<>>
  /\ writeFailed = FALSE /\ invoked = FALSE /\ failures = 0 /\ outcome = "none"
  /\ diskAtStart = disk /\ hist = <<>> /\ reported = <<>>
  /\ PureOff /\ TextOff /\ PlugOff

NonObjectSpec == NonObjectInit /\ [][Next]_vars

(***************************************************************************)
(* Checks and cleanings over dictionaries whose files all exist and parse. *)
(***************************************************************************)
AllFilesDisks ==
  {d \in [ToSet(Pairs) -> {JsonFile(t, FALSE) :
                             t \in {SaveOnly, SaveAndCancel, SaveAndDeadBranch,
                                    SaveAndEmpty, DottedAndList, CancelOnly}}] :
     /\ d[<<"zh-CN", "console">>].data \in {SaveOnly, SaveAndCancel, SaveAndDeadBranch,
                                            SaveAndEmpty}
     /\ d[<<"zh-CN", "common">>].data \in {DottedAndList, CancelOnly}
     /\ d[<<"en-US", "console">>].data \in {SaveOnly, SaveAndCancel}
     /\ d[<<"en-US", "common">>].data = CancelOnly}

AllFilesInit ==
  /\ src \in Sources
  /\ disk \in AllFilesDisks
  /\ opts \in Options
  /\ pc = "idle" /\ mode = "none" /\ runs = 0
  /\ usedKeys = <<>> /\ definedKeys = <<>> /\ result = NoResult
  /\ cleanArg = {} /\ idx = 0 /\ totalRemoved = 0 /\ counts = <<>>
  /\ writeFailed = FALSE /\ invoked = FALSE /\ failures = 0 /\ outcome = "none"
  /\ diskAtStart = disk /\ hist = <<>> /\ reported = <<>>
  /\ PureOff /\ TextOff /\ PlugOff

AllFilesSpec == AllFilesInit /\ [][Next]_vars

(***************************************************************************)
(* The Vite plugin: the hooks configResolved and buildStart around check.  *)
(***************************************************************************)
\* The roots a resolved configuration may carry, and process.cwd().
Roots == {"/app", "/other"}
Cwd == "/cwd"

\* The projectRoot buildStart passes to check, with the fallback taken at
\* every call (a mutation of RootForBuild).
RootForBuildAlwaysCwd(hasChecker, root) == Cwd

\* The projectRoot buildStart passes to check: process.cwd() when no
\* checker is defined yet, else the plugin's projectRoot.
RootForBuild(hasChecker, root) == IF ~hasChecker THEN Cwd ELSE root

\* The dictionaries of the plugin's runs.
PluginDisks ==
  {d \in Disks :
     /\ d[<<"zh-CN", "console">>] \in {Absent, JsonFile(SaveOnly, FALSE),
                                        JsonFile(SaveAndDeadBranch, FALSE)}
     /\ d[<<"zh-CN", "common">>] = Absent
     /\ d[<<"en-US", "console">>] \in {JsonFile(SaveOnly, FALSE), JsonFile(CancelOnly, FALSE)}}

PluginInit ==
  /\ src \in Sources
  /\ disk \in PluginDisks
  /\ opts \in Options
  /\ pc = "idle" /\ mode = "none" /\ runs = 0
  /\ usedKeys = <<>> /\ definedKeys = <<>> /\ result = NoResult
  /\ cleanArg = {} /\ idx = 0 /\ totalRemoved = 0 /\ counts = <<>>
  /\ writeFailed = FALSE /\ invoked = FALSE /\ failures = 0 /\ outcome = "none"
  /\ diskAtStart = disk /\ hist = <<>> /\ reported = <<>>
  /\ PureOff /\ TextOff /\ PlugOff

\* configResolved(config): projectRoot = config.root and a new checker.
ConfigResolved ==
  /\ pc = "idle"
  /\ \E r \in Roots : projectRoot' = r /\ lastConfig' = r
  /\ checker' = TRUE
  /\ UNCHANGED <<sysVars, pureVars, textVars, checkRoot, viaHook>>

\* buildStart(): the checker and projectRoot are set if no checker is
\* defined, and checker.check(projectRoot) is called; the check runs by the
\* actions Extract to Finish, and its exception, if any, leaves the hook.
BuildStart ==
  /\ pc = "idle" /\ runs < MaxRuns
  /\ projectRoot' = RootForBuild(checker, projectRoot)
  /\ checker' = TRUE
  /\ checkRoot' = projectRoot' /\ viaHook' = TRUE
  /\ pc' = "extract" /\ mode' = "check" /\ runs' = runs + 1
  /\ usedKeys' = <<>> /\ definedKeys' = <<>> /\ result' = NoResult
  /\ cleanArg' = {} /\ idx' = 0 /\ totalRemoved' = 0 /\ counts' = <<>>
  /\ writeFailed' = FALSE /\ invoked' = FALSE /\ outcome' = "running"
  /\ diskAtStart' = disk /\ reported' = <<>>
  /\ UNCHANGED <<src, disk, opts, failures, hist, pureVars, textVars, lastConfig>>

PluginNext ==
  \/ ConfigResolved \/ BuildStart
  \/ Extract \/ Read \/ Compare \/ Report \/ BeginClean \/ SkipClean
  \/ CleanFile \/ CleanReturn \/ Finish

PluginSpec == PluginInit /\ [][PluginNext]_vars

(***************************************************************************)
(* flattenObject and removeUnusedKeysFromObject applied to a tree and a    *)
(* set of used keys drawn from bounded sets.                               *)
(***************************************************************************)
\* The tree of the design's pruning example.
DeadBranchExample ==
  Obj(<<Entry("a", Obj(<<Entry("used", Str("x")),
                         Entry("dead", Obj(<<Entry("leaf", Str("y"))>>))>>))>>)

\* A tree with a leaf of each kind the dictionary format allows, at two
\* depths.
AllLeafKinds ==
  Obj(<<Entry("s", Str("")), Entry("n", Num(0)), Entry("b", Bool(FALSE)),
        Entry("in", Obj(<<Entry("s", Str("x")), Entry("n", Num(1)),
                          Entry("b", Bool(TRUE)), Entry("z", Null),
                          Entry("l", List(<<Str("x"), Num(2)>>))>>))>>)

PureTrees == Trees \cup {DeadBranchExample, SaveAndDeadBranch, DottedAndList, AllLeafKinds}

\* The keys a used-key set is drawn from: the keys of the tree's leaves and
\* one key the tree does not hold.
KeyCandidates(t) == ToSet(flattenObject(t, "")) \cup DottedLeaves(t)
UsedKeySets(t) == (SUBSET KeyCandidates(t)) \cup {{"other.key"}}

SysOff ==
  /\ src = NoSrcDir
  /\ disk = [p \in ToSet(Pairs) |-> Absent]
  /\ opts = [failOnError |-> FALSE, checkUnused |-> TRUE, removeUnused |-> FALSE]
  /\ pc = "off" /\ mode = "none" /\ runs = 0
  /\ usedKeys = <<>> /\ definedKeys = <<>> /\ result = NoResult
  /\ cleanArg = {} /\ idx = 0 /\ totalRemoved = 0 /\ counts = <<>>
  /\ writeFailed = FALSE /\ invoked = FALSE /\ failures = 0 /\ outcome = "none"
  /\ diskAtStart = disk /\ hist = <<>> /\ reported = <<>>

PureInit ==
  /\ SysOff /\ TextOff /\ PlugOff
  /\ pT \in PureTrees
  /\ pU \in UsedKeySets(pT)
  /\ pFlat = <<>> /\ pPrune = NoPrune /\ ppc = "input"
  /\ pHeap = Store(<<>>, pT).heap /\ pCleaned = 0

\* flattenObject(pT)
ApplyFlatten ==
  /\ ppc = "input"
  /\ pFlat' = flattenObject(pT, "")
  /\ ppc' = "flattened"
  /\ UNCHANGED <<sysVars, textVars, plugVars, pT, pU, pPrune, pHeap, pCleaned>>

\* removeUnusedKeysFromObject(pT, pU): what it returns, and what it does to
\* the heap, where pT is the object at address 1.
ApplyPrune ==
  /\ ppc = "flattened"
  /\ pPrune' = removeUnusedKeysFromObject(pT, pU, "")
  /\ LET r == HeapRemove(pHeap, 1, pU, "")
     IN pHeap' = r.heap /\ pCleaned' = r.cleaned
  /\ ppc' = "pruned"
  /\ UNCHANGED <<sysVars, textVars, plugVars, pT, pU, pFlat>>

PureNext == ApplyFlatten \/ ApplyPrune

PureSpec == PureInit /\ [][PureNext]_vars

(***************************************************************************)
(* KeyExtractor.extract applied to a source directory whose files hold     *)
(* texts drawn from a bounded set.                                         *)
(***************************************************************************)
\* The characters of the drawn texts.
Alphabet == {"t", "(", "'", "\"", "k", " ", "\n", "{"}

\* Every text of at most MaxChars characters.
GenTexts == UNION {[1..n -> Alphabet] : n \in 0..MaxChars}

\* Longer texts: keys with interpolation, calls in the three kinds of
\* quotes, several calls on a line, a call split over two lines.
InterpolatedSingle == <<"t", "(", "'", "a", "$", "{", "b", "}", "'", ")">>
InterpolatedBackquote == <<"t", "(", Backquote, "x", ".", "$", "{", "y", "}", Backquote, ")">>
InterpolatedBraces == <<"t", "(", "'", "x", ".", "{", "{", "y", "}", "}", "'", ")">>
StaticAmongInterpolated ==
  <<"t", "(", "'", "k", "'", ")", " ">> \o InterpolatedSingle
    \o <<"\n">> \o <<"t", "(", "\"", "k", "2", "\"", ")">>
    \o <<"\n">> \o InterpolatedBraces
QuoteInLiteral == <<"t", "(", "'", "a", "\"", "b", "'", ")">>
SameKeyTwice ==
  <<"x", "\n", "t", "(", "'", "k", "'", ")", ";", "t", " ", "(", " ", "'", "k", "'", ")">>
SplitCall == <<"t", "(", "\n", "'", "k", "'", ")", "\n", "t", "(", "'", "k", "'", ")">>

ChosenTexts ==
  {InterpolatedSingle, InterpolatedBackquote, InterpolatedBraces, StaticAmongInterpolated,
   QuoteInLiteral, SameKeyTwice, SplitCall}

\* The source directories: one file with any of the texts, or two files
\* with chosen texts, in the order of the directory walk.
TextDirs ==
  {SrcDir(<<SrcFile(ATs, TRUE, c)>>) : c \in GenTexts \cup ChosenTexts}
  \cup {SrcDir(<<SrcFile(BTsx, TRUE, c), SrcFile(ATs, TRUE, d)>>) :
          c \in {SameKeyTwice, SplitCall}, d \in {SameKeyTwice, QuoteInLiteral}}

TextInit ==
  /\ SysOff /\ PureOff /\ PlugOff
  /\ tSrc \in TextDirs
  /\ tRecs = <<>> /\ tpc = "input"

\* extract(tSrc): it returns the records or throws.
ApplyExtract ==
  /\ tpc = "input"
  /\ tRecs' = extract(tSrc).keys
  /\ tpc' = IF extract(tSrc).threw THEN "threw" ELSE "extracted"
  /\ UNCHANGED <<sysVars, pureVars, plugVars, tSrc>>

TextNext == ApplyExtract

TextSpec == TextInit /\ [][TextNext]_vars

(***************************************************************************)
(* KeyExtractor.extract applied to source trees with subdirectories.       *)
(***************************************************************************)
\* Names of files: the four extensions, a style sheet, a name that is an
\* extension and nothing else, a name without a dot and a backup file.
\* The characters of a name.
Chars(name) == [i \in 1..Len(name) |-> SubSeq(name, i, i)]

ScanFileNames ==
  {ATs, BTsx, Chars("c.js"), Chars("d.jsx"), Chars("e.css"), Chars(".ts"),
   Chars("ats"), Chars("a.ts.bak")}

\* Names of directories: the five excluded names, a plain name, a name that
\* ends in an extension and a name that begins with an excluded name.
ScanDirNames ==
  {Chars("node_modules"), Chars(".git"), Chars("dist"), Chars("build"),
   Chars("output"), Chars("lib"), Chars("my.ts"), Chars("dist2")}

\* Every file of the trees holds one call, t('k').
ScanFile(n) == SrcFile(n, TRUE, Call(<<"k">>))

RECURSIVE ScanEntriesAt(_)
\* The entries with at most d levels of directories below them.
ScanEntriesAt(d) ==
  {ScanFile(n) : n \in ScanFileNames}
  \cup (IF d = 0 THEN {}
        ELSE {SrcSub(n, TRUE, <<e>>) : n \in ScanDirNames, e \in ScanEntriesAt(d - 1)})

\* A tree with scanned, excluded and unrecognized files side by side.
MixedTree ==
  SrcDir(<<SrcSub(Chars("lib"), TRUE,
                  <<ScanFile(ATs),
                    SrcSub(Chars("node_modules"), TRUE, <<ScanFile(BTsx)>>),
                    SrcSub(Chars("my.ts"), TRUE,
                           <<ScanFile(Chars("d.jsx")), ScanFile(Chars("e.css"))>>)>>),
           SrcSub(Chars("dist"), TRUE, <<ScanFile(Chars("c.js"))>>),
           ScanFile(Chars("z.js"))>>)

\* A tree with a directory that cannot be listed.
UnlistableSub ==
  SrcDir(<<ScanFile(ATs), SrcSub(Chars("lib"), FALSE, <<>>), ScanFile(Chars("z.js"))>>)

ScanDirs ==
  {SrcDir(<<e>>) : e \in ScanEntriesAt(MaxDepth)}
  \cup {SrcDir(<<e, ScanFile(Chars("z.js"))>>) : e \in ScanEntriesAt(MaxDepth - 1)}
  \cup {MixedTree, UnlistableSub, NoSrcDir}

ScanInit ==
  /\ SysOff /\ PureOff /\ PlugOff
  /\ tSrc \in ScanDirs
  /\ tRecs = <<>> /\ tpc = "input"

ScanSpec == ScanInit /\ [][TextNext]_vars

(***************************************************************************)
(* Properties of flattenObject and removeUnusedKeysFromObject (PureSpec).  *)
(***************************************************************************)
Flattened == ppc \in {"flattened", "pruned"}
Pruned == ppc = "pruned"

\* C4: a dotted path is in flatten(T) if and only if T has a leaf (string,
\* number, boolean, null or list) at that path; paths of nested objects are
\* not in the set, lists are not descended into, and the empty tree
\* flattens to the empty set.
C4_FlattenIsTheLeafPaths ==
  Flattened =>
    /\ ToSet(pFlat) = DottedLeaves(pT)
    /\ (pT = Obj(<<>>) => pFlat = <<>>)

RECURSIVE HasEmptyName(_)
\* Some property of the tree, at any depth, has the empty name.
HasEmptyName(obj) ==
  \E i \in DOMAIN obj.val :
     \/ obj.val[i].name = ""
     \/ ~IsLeafKind(obj.val[i].value) /\ HasEmptyName(obj.val[i].value)

\* C5 as stated, on the trees without an empty property name:
\* flatten(prune(T,U).cleanedTree) is a subset of U \cap flatten(T), and
\* every key of flatten(T) \ U is in removedKeys exactly once.
C5_RemovedExactlyOnce ==
  (Pruned /\ ~HasEmptyName(pT)) =>
    /\ ToSet(flattenObject(pPrune.cleaned, "")) \subseteq (pU \cap ToSet(pFlat))
    /\ \A k \in ToSet(pFlat) \ pU : Count(k, pPrune.removed) = 1

\* No two leaves of pT flatten to the same dotted key.
LeafKeysDistinct == Len(pFlat) = Cardinality(LeafPaths(pT))

\* C5 as amended: flatten(prune(T,U).cleanedTree) is a subset of
\* U \cap flatten(T), and every key of flatten(T) \ U is in removedKeys at
\* least once, and exactly once when no two leaves of T flatten to the same
\* dotted key.
C5_RemovedOncePerLeaf ==
  Pruned =>
    /\ ToSet(flattenObject(pPrune.cleaned, "")) \subseteq (pU \cap ToSet(pFlat))
    /\ \A k \in ToSet(pFlat) \ pU :
         /\ Count(k, pPrune.removed) >= 1
         /\ LeafKeysDistinct => Count(k, pPrune.removed) = 1

\* C5's case: a tree with a used and an unused leaf was pruned, one key
\* kept and one removed.
C5_Witness ==
  /\ Pruned /\ LeafKeysDistinct
  /\ ToSet(pFlat) \cap pU # {} /\ ToSet(pFlat) \ pU # {}
  /\ Len(pPrune.removed) = Cardinality(ToSet(pFlat) \ pU)
  /\ ToSet(flattenObject(pPrune.cleaned, "")) = ToSet(pFlat) \cap pU

\* C6: no nested object of the cleaned tree, at any depth, is empty.
C6_NoEmptyObjectKept ==
  Pruned => EmptyObjects(pPrune.cleaned) = 0

\* C6's case: the design's example; the branch "dead" is dropped and its
\* parent "a", which keeps "used", stays.
C6_Witness ==
  /\ Pruned /\ pT = DeadBranchExample /\ pU = {"a.used"}
  /\ pPrune.cleaned = Obj(<<Entry("a", Obj(<<Entry("used", Str("x"))>>))>>)
  /\ pPrune.removed = <<"a.dead.leaf">>

(***************************************************************************)
(* Properties of KeyComparator.compare (Spec).                             *)
(***************************************************************************)
\* compare has returned in the running (or last) check.
Compared ==
  /\ mode = "check"
  /\ \/ pc \in {"report", "step5", "clean", "finish"}
     \/ pc = "idle" /\ outcome \in {"returned", "failed"}

\* The keys of the records compare was given.
UsedKeySet == {usedKeys[i].key : i \in DOMAIN usedKeys}

\* The used keys language l lacks, and its defined keys that are not used.
MissingOf(l) == UsedKeySet \ ToSet(definedKeys[l])
UnusedOf(l) == ToSet(definedKeys[l]) \ UsedKeySet

\* A sequence without repetition.
NoRepeat(s) == Len(s) = Cardinality(ToSet(s))

\* C1: hasErrors is true if and only if some language of the defined-key
\* index lacks a used key; unused keys never make it true, whatever
\* checkUnused is.
C1_HasErrorsIffMissing ==
  Compared => (result.hasErrors <=> \E l \in DOMAIN definedKeys : MissingOf(l) # {})

\* C1's case: no language lacks a used key, unused keys were found, and
\* hasErrors is false.
C1_Witness ==
  /\ Compared /\ opts.checkUnused
  /\ \A l \in DOMAIN definedKeys : MissingOf(l) = {}
  /\ \E l \in DOMAIN result.unusedKeys : Len(result.unusedKeys[l]) > 0
  /\ ~result.hasErrors

\* C2: missingKeys[L] holds exactly the distinct used keys that are not in
\* L's defined set, and L has no entry when there is none.
C2_MissingKeysExact ==
  Compared =>
    \A l \in DOMAIN definedKeys :
       IF MissingOf(l) = {}
       THEN l \notin DOMAIN result.missingKeys
       ELSE /\ l \in DOMAIN result.missingKeys
            /\ ToSet(result.missingKeys[l]) = MissingOf(l)
            /\ NoRepeat(result.missingKeys[l])

\* C2's case: common.save and common.cancel are used (common.save twice),
\* zh-CN defines only common.save and en-US only common.cancel.
C2_Witness ==
  /\ Compared
  /\ Len(usedKeys) = 3 /\ UsedKeySet = {"common.save", "common.cancel"}
  /\ definedKeys["zh-CN"] = <<"common.save">>
  /\ definedKeys["en-US"] = <<"common.cancel">>
  /\ result.missingKeys =
       [l \in {"zh-CN", "en-US"} |->
          IF l = "zh-CN" THEN <<"common.cancel">> ELSE <<"common.save">>]
  /\ result.hasErrors

\* C3: with checkUnused, unusedKeys[L] holds exactly the defined keys of L
\* that are not used, and L has no entry when there is none; without
\* checkUnused, unusedKeys is the empty map.
C3_UnusedKeysExact ==
  Compared =>
    IF opts.checkUnused
    THEN \A l \in DOMAIN definedKeys :
            IF UnusedOf(l) = {}
            THEN l \notin DOMAIN result.unusedKeys
            ELSE /\ l \in DOMAIN result.unusedKeys
                 /\ ToSet(result.unusedKeys[l]) = UnusedOf(l)
                 /\ NoRepeat(result.unusedKeys[l])
    ELSE DOMAIN result.unusedKeys = {}

\* C3's case: checkUnused is set, one language has unused keys and is in
\* the map, the other has none and is not.
C3_Witness ==
  /\ Compared /\ opts.checkUnused
  /\ UnusedOf("zh-CN") # {} /\ UnusedOf("en-US") = {}
  /\ definedKeys["en-US"] # <<>>
  /\ DOMAIN result.unusedKeys = {"zh-CN"}

(***************************************************************************)
(* Properties of I18nextChecker.check (Spec).                              *)
(***************************************************************************)
\* A call of check has ended.
CheckEnded == pc = "idle" /\ mode = "check"

\* The comparison of the ended check found a missing key.
MissingFound == \E l \in DOMAIN result.missingKeys : Len(result.missingKeys[l]) > 0

\* The comparison found an unused key.
UnusedFound == \E l \in DOMAIN result.unusedKeys : Len(result.unusedKeys[l]) > 0

\* C7: check signals failure if and only if the comparison found a missing
\* key and failOnError is set; in every other case it returns the
\* CheckResult normally.
C7_FailsIffMissingAndFailOnError ==
  CheckEnded =>
    /\ outcome = "failed" <=> (MissingFound /\ opts.failOnError)
    /\ ~(MissingFound /\ opts.failOnError) => outcome = "returned"

\* C8: check calls the cleaner only when checkUnused and removeUnused are
\* set and the comparison found an unused key; in every other case the
\* check leaves every dictionary file as it was.
C8_CleanerOnlyWhenAsked ==
  mode = "check" =>
    /\ invoked => (opts.checkUnused /\ opts.removeUnused /\ UnusedFound)
    /\ ~(opts.checkUnused /\ opts.removeUnused /\ UnusedFound) => disk = diskAtStart

\* Some dictionary file of d holds a leaf whose key is not in u.
UnusedOnDisk(d, u) ==
  \E p \in DOMAIN d :
     /\ Truthy(parseJsonFile(d[p]))
     /\ ToSet(flattenObject(parseJsonFile(d[p]), "")) \ u # {}

\* C8's case: a check with removeUnused set and checkUnused not set has
\* ended, the dictionaries hold keys that are not used, and no file changed.
C8_Witness ==
  /\ CheckEnded /\ outcome = "returned"
  /\ opts.removeUnused /\ ~opts.checkUnused
  /\ UnusedOnDisk(diskAtStart, UsedKeySet)
  /\ ~invoked /\ disk = diskAtStart

(***************************************************************************)
(* Properties of KeyCleaner.clean (Spec).                                  *)
(***************************************************************************)
\* A call of clean on its own has ended.
CleanEnded == pc = "idle" /\ mode = "clean"

\* The last two calls were calls of clean with the same usedKeys, the
\* second starting on the dictionaries the first left.
TwoCleans ==
  /\ CleanEnded /\ Len(hist) >= 2
  /\ hist[Len(hist) - 1].mode = "clean"
  /\ hist[Len(hist) - 1].usedKeys = hist[Len(hist)].usedKeys

FirstClean == hist[Len(hist) - 1]
SecondClean == hist[Len(hist)]

RECURSIVE SumSeq(_)
SumSeq(s) == IF s = <<>> THEN 0 ELSE Head(s) + SumSeq(Tail(s))

\* What cleanFile is to return for a file, given the file before and after
\* the call: 0 for an absent or unparsable file and for a file whose write
\* failed (it does not hold the cleaned tree), else the number of removed
\* keys.
RemovalsOf(before, after, u) ==
  LET data == parseJsonFile(before)
      r == removeUnusedKeysFromObject(data, u, "")
  IN IF ~Truthy(data) THEN 0
     ELSE IF r.removed # <<>> /\ parseJsonFile(after) # r.cleaned THEN 0
     ELSE Len(r.removed)

\* C10: a pair whose file is absent or unparsable contributes 0, nothing is
\* raised, every pair is processed, and the returned total is the sum of
\* the per-file removal counts.
C10_TotalIsSumOverPairs ==
  CleanEnded =>
    /\ outcome = "returned"
    /\ Len(counts) = Len(Pairs)
    /\ \A i \in DOMAIN counts :
         /\ ~Truthy(parseJsonFile(diskAtStart[Pairs[i]])) => counts[i] = 0
         /\ counts[i] = RemovalsOf(diskAtStart[Pairs[i]], disk[Pairs[i]], cleanArg)
    /\ totalRemoved = SumSeq(counts)

\* C10's case: each language holds one unused key in its "console" file
\* and has no "common" file; the absent files count 0 and the total is 2.
C10_Witness ==
  /\ CleanEnded /\ ~writeFailed
  /\ diskAtStart[Pairs[2]] = Absent /\ diskAtStart[Pairs[4]] = Absent
  /\ counts = <<1, 0, 1, 0>>
  /\ totalRemoved = 2

\* A call of clean (on its own or from check's step 5) is running or has
\* ended, and pair i has been processed.
Processed(i) == i \in DOMAIN counts /\ (mode = "clean" \/ invoked)

\* What removeUnusedKeysFromObject gives for the file pair i held when the
\* call started.
PruneOf(i) == removeUnusedKeysFromObject(parseJsonFile(diskAtStart[Pairs[i]]), cleanArg, "")

\* cleanFile tried to write the file of pair i (it was parsable and keys
\* were to be removed) and the file does not hold the cleaned tree.
WriteFailedAt(i) ==
  /\ Truthy(parseJsonFile(diskAtStart[Pairs[i]]))
  /\ PruneOf(i).removed # <<>>
  /\ disk[Pairs[i]] # JsonFile(PruneOf(i).cleaned, TRUE)

\* C11: clean rewrites a file only when its removed-key list is non-empty (a
\* file whose keys are all used keeps its exact content); when the write of
\* a file fails, the file stays as it was and its removals count 0; and the
\* remaining files are still processed.
C11_WriteOnlyRemovalsAndFailedWriteLeavesFile ==
  /\ \A i \in 1..Len(Pairs) :
       Processed(i) =>
         /\ (disk[Pairs[i]] # diskAtStart[Pairs[i]]) => PruneOf(i).removed # <<>>
         /\ WriteFailedAt(i) => (disk[Pairs[i]] = diskAtStart[Pairs[i]] /\ counts[i] = 0)
  /\ CleanEnded => Len(counts) = Len(Pairs)

(***************************************************************************)
(* Properties of LocaleReader.read (Spec).                                 *)
(***************************************************************************)
\* read has returned in the running (or last) check; the dictionaries it
\* read are those of diskAtStart.
ReadDone ==
  /\ mode = "check"
  /\ \/ pc \in {"compare", "report", "step5", "clean", "finish"}
     \/ pc = "idle" /\ outcome \in {"returned", "failed"}

\* The namespace files of language l that parse to a value readNamespace
\* accepts.
ParsedFiles(l) ==
  {n \in ToSet(Namespaces) : Truthy(parseJsonFile(diskAtStart[<<l, n>>]))}

\* C12: read returns an entry for every requested language, the empty set
\* when every namespace file of the language is missing or malformed; such
\* files raise nothing (a check that ends with an exception has not reached
\* read) and the other namespaces and languages are read.
C12_EveryLanguageHasAnEntry ==
  /\ ReadDone =>
       /\ DOMAIN definedKeys = ToSet(Languages)
       /\ \A l \in ToSet(Languages) : ParsedFiles(l) = {} => definedKeys[l] = <<>>
  /\ (mode = "check" /\ pc = "idle" /\ outcome = "ioerror") => definedKeys = <<>>

\* C12's case: the first language has a malformed and a missing file and
\* gets the empty set; the second language, read after it, has its keys.
C12_Witness ==
  /\ ReadDone
  /\ diskAtStart[<<"zh-CN", "console">>] = Garbage
  /\ diskAtStart[<<"zh-CN", "common">>] = Absent
  /\ definedKeys["zh-CN"] = <<>>
  /\ definedKeys["en-US"] = <<"common.save">>

\* C13: the set stored for a language is exactly the union of flatten(tree)
\* over its parsed namespace files, so a key defined only in another
\* language's files is not in it.
C13_LanguageSetIsUnionOfNamespaces ==
  ReadDone =>
    \A l \in ToSet(Languages) :
       /\ ToSet(definedKeys[l]) =
            UNION {ToSet(flattenObject(parseJsonFile(diskAtStart[<<l, n>>]), "")) :
                     n \in ParsedFiles(l)}
       /\ NoRepeat(definedKeys[l])

\* C13's case: zh-CN has two namespace files, both defining common.save
\* (one nested, one under a dotted name), and en-US defines only
\* common.cancel, which is not in the set of zh-CN.
C13_Witness ==
  /\ ReadDone
  /\ diskAtStart[<<"zh-CN", "console">>] = JsonFile(SaveOnly, FALSE)
  /\ diskAtStart[<<"zh-CN", "common">>] = JsonFile(DottedAndList, FALSE)
  /\ diskAtStart[<<"en-US", "console">>] = JsonFile(CancelOnly, FALSE)
  /\ definedKeys["zh-CN"] = <<"common.save", "items", "dead.leaf">>
  /\ definedKeys["en-US"] = <<"common.cancel">>

(***************************************************************************)
(* Properties of KeyExtractor.extract (TextSpec).  The lines of a text and *)
(* the calls of a line are stated on the positions of the characters (not  *)
(* computed as the code computes them).                                    *)
(***************************************************************************)
Extracted == tpc = "extracted"

\* Number of line breaks before position i of the text.
BreaksBefore(c, i) == Cardinality({j \in 1..(i - 1) : j <= Len(c) /\ c[j] = "\n"})

LineCount(c) == BreaksBefore(c, Len(c) + 1) + 1

\* Line n of the text (lines are numbered from 1).
LineOf(c, n) ==
  LET positions == {i \in 1..Len(c) : c[i] # "\n" /\ BreaksBefore(c, i) = n - 1}
  IN IF positions = {} THEN <<>>
     ELSE SubSeq(c, CHOOSE i \in positions : \A j \in positions : i <= j,
                    CHOOSE i \in positions : \A j \in positions : i >= j)

\* The pairs <<k, m>> such that a call starts at position i of the line:
\* the word t, spaces, an opening parenthesis, spaces, a quote at k, one or
\* more characters that are no quote, and a quote at m.
CallsAt(line, i) ==
  {km \in (1..Len(line)) \X (1..Len(line)) :
     /\ line[i] = "t" /\ (i = 1 \/ ~IsWord(line[i - 1]))
     /\ \E j \in (i + 1)..(km[1] - 1) :
          /\ line[j] = "("
          /\ \A x \in (i + 1)..(j - 1) : IsSpace(line[x])
          /\ \A x \in (j + 1)..(km[1] - 1) : IsSpace(line[x])
     /\ IsQuote(line[km[1]]) /\ IsQuote(line[km[2]])
     /\ km[2] > km[1] + 1
     /\ \A x \in (km[1] + 1)..(km[2] - 1) : ~IsQuote(line[x])}

OpenOf(line, i) == (CHOOSE km \in CallsAt(line, i) : TRUE)[1]
CloseOf(line, i) == (CHOOSE km \in CallsAt(line, i) : TRUE)[2]
LiteralOf(line, i) == SubSeq(line, OpenOf(line, i) + 1, CloseOf(line, i) - 1)

RECURSIVE IsMatch(_, _)
\* A match of the line starts at position i: a call starts there and i is
\* not inside a match that starts further left.
IsMatch(line, i) ==
  /\ CallsAt(line, i) # {}
  /\ \A h \in 1..(i - 1) :
       ~(line[h] = "t" /\ CallsAt(line, h) # {} /\ CloseOf(line, h) >= i /\ IsMatch(line, h))

\* The text holds '${' or '{{'.
Interpolated(cs) ==
  \E x \in 1..(Len(cs) - 1) :
     \/ cs[x] = "$" /\ cs[x + 1] = "{"
     \/ cs[x] = "{" /\ cs[x + 1] = "{"

\* The records extract returned for the match at position i of line n of
\* file f.
RecordsOf(f, n, i) ==
  {x \in DOMAIN tRecs :
     tRecs[x].file = tSrc.files[f].name /\ tRecs[x].line = n /\ tRecs[x].at = i}

\* The file of the directory a record names.
FileOf(r) == CHOOSE f \in DOMAIN tSrc.files : tSrc.files[f].name = r.file

\* The record comes from a match of the line it names: the call and its
\* literal are in that line of that file.
FromItsLine(r) ==
  /\ \E f \in DOMAIN tSrc.files : tSrc.files[f].name = r.file
  /\ r.line \in 1..LineCount(tSrc.files[FileOf(r)].content)
  /\ LET line == LineOf(tSrc.files[FileOf(r)].content, r.line)
     IN /\ r.at \in 1..Len(line)
        /\ IsMatch(line, r.at)
        /\ r.chars = LiteralOf(line, r.at)
        /\ r.key = Join(r.chars)

\* Every match whose literal holds no interpolation has a record.
StaticMatchesExtracted ==
  \A f \in DOMAIN tSrc.files :
    \A n \in 1..LineCount(tSrc.files[f].content) :
      LET line == LineOf(tSrc.files[f].content, n)
      IN \A i \in 1..Len(line) :
           (IsMatch(line, i) /\ ~Interpolated(LiteralOf(line, i)))
             => RecordsOf(f, n, i) # {}

\* C14: no record has a key that holds '${' or '{{'; matches with such a
\* literal give no record, and the static keys on the same and on other
\* lines are still extracted.
C14_NoInterpolatedKey ==
  Extracted =>
    /\ \A x \in DOMAIN tRecs : ~Interpolated(tRecs[x].chars)
    /\ StaticMatchesExtracted

\* C14's case: a line with a static and an interpolated call, a line with a
\* static call and a line with a {{ }} call: the two static keys are the
\* records.
C14_Witness ==
  /\ Extracted
  /\ tSrc.files[1].content = StaticAmongInterpolated
  /\ Len(tRecs) = 2
  /\ tRecs[1].key = "k" /\ tRecs[1].line = 1
  /\ tRecs[2].key = "k2" /\ tRecs[2].line = 2

\* The positions after the opening quote of the call at position i that
\* hold the same quote character again.
SameQuoteAfter(line, i) ==
  {x \in (OpenOf(line, i) + 1)..Len(line) : line[x] = line[OpenOf(line, i)]}

\* C18: for a call whose literal is closed by the quote character that
\* opens it, the key of the record is the text from after the opening quote
\* up to the first later occurrence of that same quote character on the
\* line; the other quote characters inside the literal are part of the key.
C18_KeyEndsAtSameQuote ==
  Extracted =>
    \A x \in DOMAIN tRecs :
       LET r == tRecs[x]
           line == LineOf(tSrc.files[FileOf(r)].content, r.line)
       IN SameQuoteAfter(line, r.at) # {} =>
            r.chars =
              SubSeq(line, OpenOf(line, r.at) + 1,
                     (CHOOSE m \in SameQuoteAfter(line, r.at) :
                        \A y \in SameQuoteAfter(line, r.at) : m <= y) - 1)

\* The position of a record in the walk: the index of its file in the
\* directory, its line and the position of its match in the line.
Before(r1, r2) ==
  \/ FileOf(r1) < FileOf(r2)
  \/ FileOf(r1) = FileOf(r2) /\ r1.line < r2.line
  \/ FileOf(r1) = FileOf(r2) /\ r1.line = r2.line /\ r1.at < r2.at

\* C19: extract gives one record per match and never deduplicates; every
\* record has the 1-based number of its line and a non-empty key; the
\* records are in directory-walk order, then line order, then left to right
\* within the line.
C19_OneRecordPerMatchInOrder ==
  Extracted =>
    /\ \A x \in DOMAIN tRecs : FromItsLine(tRecs[x]) /\ tRecs[x].chars # <<>>
    /\ \A f \in DOMAIN tSrc.files :
         \A n \in 1..LineCount(tSrc.files[f].content) :
           \A i \in 1..Len(LineOf(tSrc.files[f].content, n)) :
              Cardinality(RecordsOf(f, n, i)) =
                IF /\ IsMatch(LineOf(tSrc.files[f].content, n), i)
                   /\ ~Interpolated(LiteralOf(LineOf(tSrc.files[f].content, n), i))
                THEN 1 ELSE 0
    /\ \A x, y \in DOMAIN tRecs : x < y => Before(tRecs[x], tRecs[y])

\* C19's case: two files; the first of the walk calls t('k') twice on its
\* second line, the second has a call on its first line: three records, the
\* two of the same key first, with line 2, left to right.
C19_Witness ==
  /\ Extracted
  /\ Len(tSrc.files) = 2
  /\ tSrc.files[1].content = SameKeyTwice /\ tSrc.files[2].content = QuoteInLiteral
  /\ Len(tRecs) = 3
  /\ tRecs[1].key = "k" /\ tRecs[1].file = "b.tsx" /\ tRecs[1].line = 2 /\ tRecs[1].at = 1
  /\ tRecs[2].key = "k" /\ tRecs[2].file = "b.tsx" /\ tRecs[2].line = 2 /\ tRecs[2].at = 8
  /\ tRecs[3].file = "a.ts" /\ tRecs[3].line = 1

\* C20: a call whose t( and whose literal are on different lines gives no
\* record: each record's call lies, literal included, in one line of the
\* file, and no key holds a line break.
C20_NoMatchSpansLines ==
  Extracted =>
    \A x \in DOMAIN tRecs :
       /\ FromItsLine(tRecs[x])
       /\ \A p \in DOMAIN tRecs[x].chars : tRecs[x].chars[p] # "\n"

\* C20's case: t( ends the first line and the literal starts the second;
\* the only record is that of the call of the third line.
C20_Witness ==
  /\ Extracted
  /\ Len(tSrc.files) = 1 /\ tSrc.files[1].content = SplitCall
  /\ Len(tRecs) = 1 /\ tRecs[1].line = 3 /\ tRecs[1].key = "k"

(***************************************************************************)
(* Properties of the handling of missing directories and of I/O failures   *)
(* (Spec).                                                                 *)
(***************************************************************************)
\* extract has returned or thrown in the running (or last) check.
ExtractDone == mode = "check" /\ pc # "extract"

\* No dictionary file exists: the locale directory is missing.
NoLocaleDir == \A p \in ToSet(Pairs) : diskAtStart[p] = Absent

\* C15: extract on a source root that does not exist returns the empty list
\* and does not raise; a check over a missing source directory or a missing
\* locale directory, with failOnError not set, completes without raising.
C15_MissingDirectoriesDoNotRaise ==
  /\ (ExtractDone /\ ~src.exists) => (usedKeys = <<>> /\ outcome # "ioerror")
  /\ (CheckEnded /\ ~opts.failOnError /\ (~src.exists \/ NoLocaleDir))
       => outcome = "returned"

\* C16: no exception caused by I/O leaves extract, read or clean: no call
\* ends with one, an unreadable dictionary file gives the empty set, and a
\* file that cannot be written counts zero removals.
C16_NoIoExceptionEscapes ==
  /\ outcome # "ioerror"
  /\ ReadDone => DOMAIN definedKeys = ToSet(Languages)
  /\ \A i \in 1..Len(Pairs) : (Processed(i) /\ WriteFailedAt(i)) => counts[i] = 0

(***************************************************************************)
(* Properties of the plugin hooks (PluginSpec).                            *)
(***************************************************************************)
\* buildStart has called check (which runs or has ended).
HookCheck == mode = "check" /\ viaHook

\* C17: every buildStart runs check against the root of the most recent
\* configResolved call, or against the working directory when there was no
\* such call (the hooks are called one after the other, so the most recent
\* root stays the same for as long as the check runs); and the hook raises
\* the error 'i18next check failed: missing translation keys found' exactly
\* when the check fails (a missing key was found and failOnError is set).
C17_BuildStartChecksLatestRoot ==
  HookCheck =>
    /\ (pc # "idle" => checkRoot = (IF lastConfig = "none" THEN Cwd ELSE lastConfig))
    /\ (pc = "idle" => (outcome = "failed" <=> (MissingFound /\ opts.failOnError)))

\* C17's case: buildStart was called without configResolved (the check ran
\* against the working directory), then configResolved gave a root, and a
\* second buildStart has run its check against that root and raised the
\* error.
C17_Witness ==
  /\ HookCheck /\ pc = "idle" /\ runs = 2
  /\ Len(hist) = 2 /\ hist[1].root = Cwd
  /\ lastConfig = "/other" /\ checkRoot = "/other"
  /\ outcome = "failed"

(***************************************************************************)
(* Properties of the report (Spec).                                        *)
(***************************************************************************)
\* report has logged its lines in the running (or last) check.
ReportDone ==
  /\ mode = "check"
  /\ \/ pc \in {"step5", "clean", "finish"}
     \/ pc = "idle" /\ outcome \in {"returned", "failed"}

\* The keys of the dictionaries and of the source files, in lexicographic
\* order (by code unit).
KeysInOrder == <<"common.cancel", "common.dead.leaf", "common.save", "dead.leaf", "items">>
Rank(k) == CHOOSE i \in DOMAIN KeysInOrder : KeysInOrder[i] = k
IsSorted(keys) ==
  \A i \in DOMAIN keys : \A j \in DOMAIN keys : i < j => Rank(keys[i]) <= Rank(keys[j])

\* The language whose block holds line i of the report ("": none).
LangAt(i) ==
  LET heads == {j \in 1..i : reported[j].log \in {"language", "divider"}}
  IN IF heads = {} THEN ""
     ELSE LET h == CHOOSE j \in heads : \A x \in heads : x <= j
          IN IF reported[h].log = "language" THEN reported[h].text ELSE ""

\* The keys the report prints for a language with the given Logger method
\* ("error": the missing keys, "warning": the unused keys), in print order.
RECURSIVE KeysPrintedFrom(_, _, _)
KeysPrintedFrom(l, log, i) ==
  IF i > Len(reported) THEN <<>>
  ELSE (IF reported[i].log = log /\ reported[i].text = "key" /\ LangAt(i) = l
        THEN <<reported[i].key>> ELSE <<>>)
       \o KeysPrintedFrom(l, log, i + 1)
KeysPrinted(l, log) == KeysPrintedFrom(l, log, 1)

\* C21: within each language the report prints the missing keys in
\* lexicographic order and the unused keys in lexicographic order.
C21_ReportSortsKeys ==
  ReportDone =>
    \A l \in ToSet(Languages) :
      IsSorted(KeysPrinted(l, "error")) /\ IsSorted(KeysPrinted(l, "warning"))

\* The totals of the CheckResult.
TotalMissing == TotalLen(result.missingKeys)
TotalUnused == TotalLen(result.unusedKeys)

SuccessOnly == <<Line("success", "All translation keys are in sync", "", "", 0, 0)>>

\* The report declares success and prints nothing else exactly when there
\* is no error and no unused key.
QuickSuccess ==
  (~result.hasErrors /\ TotalUnused = 0) <=> (reported = SuccessOnly)

\* Every missing key of every language is printed in the block of the
\* language, followed by the file and line of the first record with the
\* key, and every unused key is printed in the block.
EveryIssuePrinted ==
  \A l \in ToSet(Languages) :
    /\ \A k \in ToSet(MapGetOr(result.missingKeys, l, <<>>)) :
         \E i \in 1..(Len(reported) - 1) :
           /\ reported[i] = Line("error", "key", k, "", 0, 0) /\ LangAt(i) = l
           /\ LET first == CHOOSE x \in DOMAIN usedKeys :
                             /\ usedKeys[x].key = k
                             /\ \A y \in 1..(x - 1) : usedKeys[y].key # k
              IN reported[i + 1] =
                   Line("dim", "usage", k, usedKeys[first].file, usedKeys[first].line, 0)
    /\ ToSet(KeysPrinted(l, "error")) = ToSet(MapGetOr(result.missingKeys, l, <<>>))
    /\ ToSet(KeysPrinted(l, "warning")) = ToSet(MapGetOr(result.unusedKeys, l, <<>>))

\* The lines after the summary title.
SummaryPart ==
  LET at == {i \in DOMAIN reported : reported[i].log = "summary"}
  IN IF at = {} THEN <<>>
     ELSE SubSeq(reported, (CHOOSE i \in at : TRUE) + 1, Len(reported))

\* The summary carries the total missing count and the total unused count.
SummaryHasBothTotals ==
  /\ Line("info", "Missing", "", "", TotalMissing, 0) \in ToSet(SummaryPart)
  /\ Line("info", "Unused", "", "", TotalUnused, 0) \in ToSet(SummaryPart)

\* C22: report declares success and prints nothing else when hasErrors is
\* false and no key is unused; in every other case it prints, for each
\* language with an issue, every missing key with the file and line of its
\* first use and every unused key, and then a summary that carries both
\* the total missing count and the total unused count.
C22_ReportContent ==
  ReportDone =>
    /\ QuickSuccess
    /\ (reported # SuccessOnly) => (EveryIssuePrinted /\ SummaryHasBothTotals)

(***************************************************************************)
(* Properties of the walk of the source tree (ScanSpec).                   *)
(***************************************************************************)
RECURSIVE FilesUnder(_, _, _)
\* Every file of a tree: its path from the root, the characters of its
\* name, and the names of the directories on the way to it.
FilesUnder(entries, path, dirs) ==
  UNION {IF entries[i].isDir
         THEN FilesUnder(entries[i].files, PathJoin(path, entries[i].name),
                         dirs \cup {entries[i].name})
         ELSE {[path |-> PathJoin(path, entries[i].name), chars |-> entries[i].chars,
                dirs |-> dirs]} : i \in DOMAIN entries}

SourceSuffixes ==
  {<<".", "t", "s">>, <<".", "t", "s", "x">>, <<".", "j", "s">>, <<".", "j", "s", "x">>}
ExcludedNames == {"node_modules", ".git", "dist", "build", "output"}

\* The file has a recognized extension and no excluded directory above it.
Eligible(f) ==
  /\ \E k \in 0..Len(f.chars) : SubSeq(f.chars, k + 1, Len(f.chars)) \in SourceSuffixes
  /\ f.dirs \cap ExcludedNames = {}

EligiblePaths == {f.path : f \in {g \in FilesUnder(tSrc.files, "", {}) : Eligible(g)}}

\* C23: every record extract returns comes from a file with one of the four
\* extensions that lies under the root below no excluded directory at any
\* depth, and when extract returns every such file has been scanned (once:
\* each file of the trees holds one call).
C23_ScansExactlyTheSourceFiles ==
  /\ \A x \in DOMAIN tRecs : tRecs[x].file \in EligiblePaths
  /\ Extracted =>
       /\ {tRecs[x].file : x \in DOMAIN tRecs} = EligiblePaths
       /\ Len(tRecs) = Cardinality(EligiblePaths)

\* C23's case: of seven files, the three scanned are a file of a
\* subdirectory, a file two levels down in a directory whose name ends in
\* .ts, and a file of the root; the files below node_modules and dist and
\* the style sheet are left out.
C23_Witness ==
  /\ Extracted /\ tSrc = MixedTree
  /\ [x \in DOMAIN tRecs |-> tRecs[x].file] = <<"lib/a.ts", "lib/my.ts/d.jsx", "z.js">>

(***************************************************************************)
(* Properties of the dictionaries during and after pruning (Spec).         *)
(***************************************************************************)
\* The file of pair i as the call found it, and as cleanFile writes it.
OriginalOf(i) == diskAtStart[Pairs[i]]
PrunedOf(i) == JsonFile(PruneOf(i).cleaned, TRUE)

\* cleanFile has removals for pair i: its file was parsable and holds a
\* key that is not used.
HasRemovals(i) ==
  Truthy(parseJsonFile(OriginalOf(i))) /\ PruneOf(i).removed # <<>>

\* C24: at every point of a clean run, between any two files and after an
\* interruption, each dictionary file holds its original content or its
\* fully pruned content: the file of a pair already processed whose
\* removals were counted is rewritten, the file of a pair not yet processed
\* is untouched (the pairs are taken languages outer, namespaces inner).
C24_EachFileOriginalOrPruned ==
  mode \in {"clean", "check"} =>
    \A i \in 1..Len(Pairs) :
      /\ disk[Pairs[i]] = OriginalOf(i) \/ (HasRemovals(i) /\ disk[Pairs[i]] = PrunedOf(i))
      /\ (Processed(i) /\ HasRemovals(i) /\ counts[i] > 0) => disk[Pairs[i]] = PrunedOf(i)
      /\ ~Processed(i) => disk[Pairs[i]] = OriginalOf(i)

(***************************************************************************)
(* Properties of the order of the phases of check (Spec).                  *)
(***************************************************************************)
\* The steps of a check, each phase after the one before it: the extraction
\* (which may throw), the reading, the comparison, the report, the guard of
\* step 5, the cleaning if the guard holds, and the return or the error.
PhaseSteps ==
  {<<"idle", "extract">>, <<"extract", "read">>, <<"extract", "idle">>,
   <<"read", "compare">>, <<"compare", "report">>, <<"report", "step5">>,
   <<"step5", "clean">>, <<"step5", "finish">>, <<"clean", "finish">>,
   <<"finish", "idle">>}

\* A failed check has printed its report and finished its cleaning: every
\* file whose removals were counted holds its pruned content.
FailedAfterReportAndPrune ==
  (CheckEnded /\ outcome = "failed") =>
    /\ reported = report(usedKeys, result, opts.removeUnused)
    /\ reported # <<>>
    /\ (opts.checkUnused /\ opts.removeUnused /\ UnusedFound) =>
         /\ invoked /\ Len(counts) = Len(Pairs)
         /\ \A i \in DOMAIN counts : counts[i] > 0 => disk[Pairs[i]] = PrunedOf(i)

\* C25: within a check the phases follow one another in the order extract,
\* read, compare, report, prune (when enabled), fail signal; the error is
\* raised only after the report and the cleaning, so a check that fails
\* with checkUnused and removeUnused set has rewritten the dictionaries,
\* and the rewrites stay.
C25_PhasesInOrder ==
  /\ [][(mode' = "check" /\ pc' # pc) => <<pc, pc'>> \in PhaseSteps]_vars
  /\ [][pc = "finish" => disk' = disk]_vars
  /\ []FailedAfterReportAndPrune

\* C25's case: a check with the three options set has failed for a missing
\* key after it removed an unused key from a dictionary file.
C25_Witness ==
  /\ CheckEnded /\ outcome = "failed"
  /\ opts.checkUnused /\ opts.removeUnused /\ opts.failOnError
  /\ MissingFound /\ invoked
  /\ \E i \in DOMAIN counts : counts[i] > 0 /\ disk[Pairs[i]] # OriginalOf(i)

(***************************************************************************)
(* Properties of removeUnusedKeysFromObject on the heap (PureSpec).        *)
(***************************************************************************)
\* The heap before the call: the objects of pT.
HeapBefore == Store(<<>>, pT).heap

RECURSIVE ObjectsFrom(_, _)
\* The addresses of the object at a and of the objects nested in it.
ObjectsFrom(heap, a) ==
  {a} \cup UNION {IF IsRef(heap[a].val[i].value)
                  THEN ObjectsFrom(heap, heap[a].val[i].value.val)
                  ELSE {} : i \in DOMAIN heap[a].val}

RECURSIVE LeavesOf(_, _)
\* The leaves of a tree in property order: the names on the way to each,
\* and its value.
LeavesOf(t, path) ==
  IF ObjectEntries(t) = <<>> THEN <<>>
  ELSE LET e == ObjectEntries(t)[1]
           here == IF IsNestedObject(e.value) THEN LeavesOf(e.value, Append(path, e.name))
                   ELSE <<[path |-> Append(path, e.name), value |-> e.value]>>
       IN here \o LeavesOf(Obj(Tail(ObjectEntries(t))), path)

\* C26: the call leaves its input as it was: every object of pT, at every
\* depth, holds after the call the properties and values it held before,
\* and pU is the same set; the cleaned tree is made of new objects only, it
\* is the tree the call returned, and its leaves are leaves of pT with
\* their values, in the order they have in pT.
C26_PruneLeavesInputUnchanged ==
  /\ [][pT' = pT /\ pU' = pU]_vars
  /\ [](ppc = "pruned" =>
          /\ \A a \in DOMAIN HeapBefore : pHeap[a] = HeapBefore[a]
          /\ Load(pHeap, 1) = pT
          /\ ObjectsFrom(pHeap, pCleaned) \cap DOMAIN HeapBefore = {}
          /\ Load(pHeap, pCleaned) = pPrune.cleaned
          /\ LET kept == LeavesOf(pPrune.cleaned, <<>>)
             IN kept = SelectSeq(LeavesOf(pT, <<>>), LAMBDA l : l \in ToSet(kept)))

\* C26's case: a tree with a nested object lost an unused leaf and kept a
\* leaf of the nested object: the cleaned tree has a new root and a new
\* nested object, and pT still holds both leaves.
C26_Witness ==
  /\ ppc = "pruned"
  /\ pPrune.removed # <<>>
  /\ Cardinality(ObjectsFrom(pHeap, pCleaned)) >= 2
  /\ Len(LeavesOf(pPrune.cleaned, <<>>)) >= 1
  /\ Len(LeavesOf(pT, <<>>)) > Len(LeavesOf(pPrune.cleaned, <<>>))

(***************************************************************************)
(* Properties of dictionary files that hold no object (NonObjectSpec).     *)
(***************************************************************************)
\* The file is valid JSON and its top-level value is a list, a string, a
\* number or a boolean.
NonObject(file) ==
  file.kind = "json" /\ file.data.kind \in {"list", "string", "number", "boolean"}

\* The dictionaries with every such file made unparsable.
AsUnparsable(d) == [p \in DOMAIN d |-> IF NonObject(d[p]) THEN Garbage ELSE d[p]]

\* C27: a dictionary file that is valid JSON with a list, a string, a
\* number or a boolean at the top is handled like an unparsable file: the
\* Reader gives the key sets it would give were the file unparsable, and
\* the Pruner counts no removal for it and does not rewrite it.
C27_NonObjectLikeUnparsable ==
  /\ ReadDone => definedKeys = read(AsUnparsable(diskAtStart))
  /\ \A i \in 1..Len(Pairs) :
       (Processed(i) /\ NonObject(OriginalOf(i))) =>
         (counts[i] = 0 /\ disk[Pairs[i]] = OriginalOf(i))

(***************************************************************************)
(* Properties of the keys the dictionaries keep through the runs (Spec).   *)
(***************************************************************************)
\* The dictionaries before the first call.
FirstDisk == IF hist = <<>> THEN diskAtStart ELSE hist[1].start

\* The used-key set of the runs: the static keys of the source files.
RunKeys == SourceKeys(src.files, 1)

\* The flattened key set of a file (empty when it cannot be parsed).
KeysOfFile(file) ==
  IF Truthy(parseJsonFile(file)) THEN ToSet(flattenObject(parseJsonFile(file), "")) ELSE {}

\* The used keys language l does not define in the dictionaries d.
MissingIn(d, l) == RunKeys \ UNION {KeysOfFile(d[<<l, n>>]) : n \in ToSet(Namespaces)}

\* C28: after any sequence of clean or check runs with the same used keys,
\* the key set of every dictionary file is a subset of its original key set
\* and holds every original key that is used, so the missing keys of every
\* language are the same as before any pruning.
C28_PruningKeepsUsedKeys ==
  /\ \A p \in DOMAIN disk :
       /\ KeysOfFile(disk[p]) \subseteq KeysOfFile(FirstDisk[p])
       /\ (KeysOfFile(FirstDisk[p]) \cap RunKeys) \subseteq KeysOfFile(disk[p])
  /\ \A l \in ToSet(Languages) : MissingIn(disk, l) = MissingIn(FirstDisk, l)

(***************************************************************************)
(* Properties of the removal count of a check (AllFilesSpec).              *)
(***************************************************************************)
\* The cleaner called by a check with checkUnused and removeUnused set has
\* returned; every dictionary file was parsable and no write failed.
PrunedByCheck ==
  /\ mode = "check" /\ invoked /\ pc \in {"finish", "idle"}
  /\ opts.checkUnused /\ opts.removeUnused
  /\ \A p \in DOMAIN diskAtStart : Truthy(parseJsonFile(diskAtStart[p]))
  /\ ~writeFailed

\* The sum over the languages of the unused keys compare reported.
UnusedReported == TotalLen(result.unusedKeys)

\* The leaves of the files of language l whose key is k.
LeavesWithKey(l, k) ==
  SumSeq([i \in DOMAIN Pairs |->
            IF Pairs[i][1] = l
            THEN Cardinality({q \in LeafPaths(parseJsonFile(diskAtStart[Pairs[i]])) :
                                Dotted(q) = k})
            ELSE 0])

\* No unused key of a language is the key of two leaves of its files.
NoKeyDefinedTwice ==
  \A l \in DOMAIN result.unusedKeys :
    \A x \in DOMAIN result.unusedKeys[l] : LeavesWithKey(l, result.unusedKeys[l][x]) = 1

\* C29 as stated: the total the cleaner returns equals the sum over the
\* languages of the unused keys compare reported.
C29_TotalEqualsUnusedReported ==
  PrunedByCheck => totalRemoved = UnusedReported

\* C29 as amended: the total is the number of removed leaves over all
\* files; it is at least the sum of the reported unused keys, and equal to
\* it when no unused key of a language is defined by two leaves.
C29_TotalEqualsRemovedLeaves ==
  PrunedByCheck =>
    /\ totalRemoved = SumSeq([i \in DOMAIN Pairs |-> Len(PruneOf(i).removed)])
    /\ totalRemoved >= UnusedReported
    /\ NoKeyDefinedTwice => totalRemoved = UnusedReported

\* C29's case: each language had unused keys, none defined twice, and the
\* cleaner returned their number.
C29_Witness ==
  /\ PrunedByCheck /\ NoKeyDefinedTwice
  /\ \A l \in ToSet(Languages) :
       l \in DOMAIN result.unusedKeys /\ Len(result.unusedKeys[l]) >= 2
  /\ totalRemoved = UnusedReported

(***************************************************************************)
(* Properties of the files a finished cleaning leaves (AllFilesSpec).      *)
(***************************************************************************)
\* A cleaning (on its own, or called by a check) has returned, and none of
\* its writes failed.
CleanDone ==
  /\ \/ mode = "clean" /\ pc = "idle"
     \/ mode = "check" /\ invoked /\ pc \in {"finish", "idle"}
  /\ ~writeFailed

\* The parsed content of the file of pair i now.
ContentOf(i) == parseJsonFile(disk[Pairs[i]])

\* C30 as stated: after a cleaning whose writes all succeeded, every
\* parsable dictionary file holds the cleaned tree prune computes for it, so
\* no file holds an unused leaf or an empty nested object.
C30_FilesHoldCleanedTrees ==
  CleanDone =>
    \A i \in 1..Len(Pairs) :
      Truthy(parseJsonFile(OriginalOf(i))) =>
        /\ ContentOf(i) = PruneOf(i).cleaned
        /\ ToSet(flattenObject(ContentOf(i), "")) \subseteq cleanArg
        /\ EmptyObjects(ContentOf(i)) = 0

\* C30 as amended: a file from which prune removes a key holds the cleaned
\* tree, without unused leaf and without empty nested object; every other
\* parsable file is left as it was: it holds no unused leaf, and keeps the
\* empty nested objects it had.
C30_RewrittenFilesHoldCleanedTrees ==
  CleanDone =>
    \A i \in 1..Len(Pairs) :
      Truthy(parseJsonFile(OriginalOf(i))) =>
        /\ ToSet(flattenObject(ContentOf(i), "")) \subseteq cleanArg
        /\ HasRemovals(i) =>
             /\ disk[Pairs[i]] = PrunedOf(i)
             /\ EmptyObjects(ContentOf(i)) = 0
        /\ ~HasRemovals(i) => disk[Pairs[i]] = OriginalOf(i)

\* C30's case: one file lost its unused key and holds the cleaned tree,
\* another had no unused key and still holds its empty nested object.
C30_Witness ==
  /\ CleanDone
  /\ \E i \in 1..Len(Pairs) :
       HasRemovals(i) /\ disk[Pairs[i]] = PrunedOf(i) /\ PrunedOf(i).data # Obj(<<>>)
  /\ \E j \in 1..Len(Pairs) :
       /\ ~HasRemovals(j) /\ OriginalOf(j) = JsonFile(SaveAndEmpty, FALSE)
       /\ disk[Pairs[j]] = OriginalOf(j) /\ EmptyObjects(ContentOf(j).val[1].value) = 1

====
